---- MODULE Spec2Model ----
(***************************************************************************)
(* StrigidEngine: archetype/chunk entity storage and the generational      *)
(* entity handles of Registry.                                             *)
(*                                                                         *)
(* State: the Registry's EntityIndex table, FreeIndices queue,             *)
(* NextEntityIndex counter and PendingDestructions list, and the           *)
(* Archetypes (EntitiesPerChunk, TotalEntityCount, Chunks).                *)
(* Operations: Registry::Create<T>, Destroy, ProcessDeferredDestructions,  *)
(* GetComponent<T> / HasComponent<T>, Archetype::PushEntity and            *)
(* Archetype::GetChunkCount.                                               *)
(***************************************************************************)
EXTENDS Integers, Sequences, FiniteSets, TLC

(***************************************************************************)
(* Bounds of the model.                                                    *)
(***************************************************************************)
\* Number of values of the EntityID Index bit-field. The source has 20 bits
\* (2^20 values); the model keeps the truncation but on a narrower field.
IndexLimit == 3

\* Number of values of the 16-bit Generation field (2^16 in the source),
\* narrowed the same way; the arithmetic is modulo this number.
GenLimit == 3

\* Cap on the number of Create calls (entities pushed, all archetypes).
MaxCreates == 4

\* Cap on the length of PendingDestructions.
MaxPending == 2

\* Longest component list handed to BuildLayout on its own.
MaxComponents == 3

\* Largest entityCount handed to a lifecycle invoker on its own.
MaxEntityCount == 11

\* Most writes made through a FieldProxy modelled on its own.
MaxProxyWrites == 1

\* Most entities an archetype holds when queries and phases are modelled.
MaxArchetypeEntities == 3
MaxLayoutChunks == 2
MaxFrames == 4
MaxRenderFrames == 3
RingCells == 8
MaxRingFrames == 3
MaxInstances == 1
MaxReturned == 9
SigTypeIDLimit == 34
MaxDeclared == 2
MaxWideComponents == 6
MaxConstructed == 3
MaxProcessCreates == 3
MaxResets == 1
SnapshotEntitiesPerChunk == 2
MaxSnapshotCreates == 4
MaxSnapshotFrames == 3

(***************************************************************************)
(* Program constants.                                                      *)
(***************************************************************************)
CHUNK_SIZE == 65536

ReservedHeaderSpace == 64

DefaultStride == 64

FallbackEntitiesPerChunk == 256

LocalIndexLimit == 65536

\* Lanes of one SIMD batch (8 floats in a __m256).
SIMD_BATCH == 8

\* 6.283185307179586f. Field values are counted in tenths, so that
\* dt * 0.7f, dt * 0.6f and dt * 0.5f are whole for a dt of whole seconds;
\* the threshold is rounded to the tenth.
TWO_PI == 63

(***************************************************************************)
(* Registered entity classes and their component lists (MetaRegistry).     *)
(* g_GlobalClassCounter and g_GlobalComponentCounter both start at 1.      *)
(***************************************************************************)
ClassIDs == {1}

\* ComponentMeta of the component types used by the registered prefabs.
\* Fields is the FieldMeta list ComponentFieldRegistry holds for the type;
\* it is empty when no field decomposition is registered.
ComponentMetas ==
    { [TypeID |-> 1, Size |-> 32736, Alignment |-> 16, Fields |-> <<>>],
      [TypeID |-> 2, Size |-> 21824, Alignment |-> 4,
       Fields |-> <<[Size |-> 10912, Alignment |-> 4], [Size |-> 10912, Alignment |-> 4]>>],
      [TypeID |-> 3, Size |-> 70000, Alignment |-> 8,  Fields |-> <<>>],
      [TypeID |-> 4, Size |-> 65472, Alignment |-> 16, Fields |-> <<>>] }

ComponentTypeIDs == {m.TypeID : m \in ComponentMetas}

\* The component lists a class may have been registered with: one
\* component each (2, 3, 0 and 1 entities fit a chunk), or none.
Prefabs == {<<m>> : m \in ComponentMetas} \cup {<<>>}

\* nullptr, as an archetype or chunk pointer.
Null == -1

\* LogicThread::ThreadMain's safety caps. Time is counted in 1/64 s:
\* kMaxDt and kMaxAccumulatedTime are 0.25 s.
kMaxDt == 16

kMaxAccumulatedTime == 16

kMaxPhysSubSteps == 8

(***************************************************************************)
(* EntityID (union over a 64-bit Value). OwnerID, IsStatic and MetaFlags   *)
(* are 0 in every id this model builds, so Value = 0 exactly when Index,   *)
(* Generation and TypeID are all 0.                                        *)
(***************************************************************************)
MakeID(i, g, t) == [Index |-> i, Generation |-> g, TypeID |-> t]

Invalid == MakeID(0, 0, 0)

IsValid(Id) == Id # Invalid

\* The handles a caller may pass to GetComponent / HasComponent: every
\* (Index, Generation) pair, live, stale or never issued, and the 0 handle.
HandleInputs ==
    {MakeID(i, g, 1) : i \in 0..(IndexLimit - 1), g \in 0..(GenLimit - 1)}
        \cup {Invalid}

(***************************************************************************)
(* EntityRecord                                                            *)
(***************************************************************************)
EmptyRecord == [Arch |-> Null, TargetChunk |-> Null, Index |-> 0, Generation |-> 0]

RecordIsValid(Record) == Record.Arch # Null /\ Record.TargetChunk # Null

VARIABLES
    ClassToArchetype,     \* MetaRegistry: class id -> registered component list
    Archetypes,           \* Registry::Archetypes: signature -> archetype
    EntityIndex,          \* Registry::EntityIndex, a function on 0..size-1
    FreeIndices,          \* Registry::FreeIndices (FIFO queue)
    NextEntityIndex,      \* Registry::NextEntityIndex
    PendingDestructions,  \* Registry::PendingDestructions
    heapNext,             \* next Chunk address handed out by new Chunk()
    ret,                  \* the last call and what it returned
    Build,                \* how the program was built: "release" (no _DEBUG),
                          \* "debug" (_DEBUG, assert active) or "debug_ndebug"
                          \* (_DEBUG with assert compiled out)
    Live,                 \* history: entities created and not yet destroyed-and-processed
    Issued,               \* history: every id Create has returned
    freedOrder,           \* history: the ids whose destruction freed an index not yet
                          \* reused, in the order they were freed
    layout,               \* an Archetype under construction: the component list
                          \* handed to BuildLayout and, once it returned, the layout
    inv,                  \* one call of a lifecycle invoker (InvokePrePhysicsImpl<T>):
                          \* its arguments, the field arrays of the chunk, its position
    world,                \* a Registry with several classes and archetypes, as the
                          \* queries and the lifecycle phases see it: the MetaRegistry,
                          \* the archetype map, and the query or scan in progress
    logic,                \* the LogicThread: its position in ThreadMain, its timing
                          \* fields and the Registry calls of the current frame
    proxy,                \* one FieldProxy on its own: the array it is bound to, its index and
                          \* lane count, and the last operation made through it
    bind,                 \* the views of the registered classes hydrated
                          \* against the tables of their archetypes
    mail,                 \* the triple-buffer mailbox between the logic
                          \* thread and the render thread
    rt,                   \* the render thread, the main thread and the
                          \* atomics of their handshake
    ring,                 \* the render command ring buffer with its
                          \* producer (main thread) and consumer
    metareg,              \* the MetaRegistry on its own: the signatures and component
                          \* lists the registrations of two classes have built
    proc,                 \* the Registry objects of the process and the
                          \* function-local statics of Registry::Create<T>
    snap                  \* RenderThread::SnapshotSparseArrays running beside
                          \* a logic thread that creates entities

registryVars == <<ClassToArchetype, Archetypes, EntityIndex, FreeIndices, NextEntityIndex,
                  PendingDestructions, heapNext, ret, Build, Live, Issued, freedOrder>>

\* What the operations of the Registry leave alone.
nonRegistryVars == <<layout, inv, world, logic, proxy, bind, mail, rt, ring, metareg, proc, snap>>

\* What Archetype::BuildLayout, called on its own, leaves alone.
nonLayoutVars == <<registryVars, inv, world, logic, proxy, bind, mail, rt, ring, metareg, proc, snap>>

\* What a lifecycle invoker, called on its own, leaves alone.
nonInvokerVars == <<registryVars, layout, world, logic, proxy, bind, mail, rt, ring, metareg, proc, snap>>

\* What the queries and lifecycle phases, modelled on their own, leave alone.
nonWorldVars == <<registryVars, layout, inv, logic, proxy, bind, mail, rt, ring, metareg, proc, snap>>

\* What a step of the logic thread leaves alone.
nonLogicVars == <<registryVars, layout, inv, world, proxy, bind, mail, rt, ring, metareg, proc, snap>>

nonProxyVars == <<registryVars, layout, inv, world, logic, bind, mail, rt, ring, metareg, proc, snap>>

nonBindVars == <<registryVars, layout, inv, world, logic, proxy, mail, rt, ring, metareg, proc, snap>>

nonMailVars == <<registryVars, layout, inv, world, logic, proxy, bind, rt, ring, metareg, proc, snap>>

nonRenderVars == <<registryVars, layout, inv, world, logic, proxy, bind, mail, ring, metareg, proc, snap>>

nonRingVars == <<registryVars, layout, inv, world, logic, proxy, bind, mail, rt, metareg, proc, snap>>

nonMetaRegistryVars == <<registryVars, layout, inv, world, logic, proxy, bind, mail, rt, ring, proc, snap>>

nonProcessVars == <<registryVars, layout, inv, world, logic, proxy, bind, mail, rt, ring, metareg, snap>>

nonSnapshotVars == <<registryVars, layout, inv, world, logic, proxy, bind, mail, rt, ring, metareg, proc>>

vars == <<registryVars, layout, inv, world, logic, proxy, bind, mail, rt, ring, metareg, proc, snap>>

\* No query or lifecycle phase is modelled.
NoWorld == [pc |-> "None"]

NoLogic == [pc |-> "None"]

NoSnapshot == [pc |-> "None"]

NoProcess == [pc |-> "None"]

NoMetaRegistry == [pc |-> "None"]

NoRing == [pc |-> "None"]

NoRender == [pc |-> "None"]

NoMail == [pc |-> "None"]

NoBind == [pc |-> "None"]

NoProxy == [pc |-> "None"]

\* No lifecycle invoker is running on its own.
NoInvoke == [pc |-> "None"]

(***************************************************************************)
(* Archetype                                                               *)
(***************************************************************************)
RECURSIVE SumSizes(_)
SumSizes(Components) ==
    IF Components = <<>> THEN 0
    ELSE Head(Components).Size + SumSizes(Tail(Components))

\* Mutant of LayoutEntitiesPerChunk: no header space is reserved.
LayoutEntitiesPerChunk_NoReserve(Components) ==
    LET UsableSpace == CHUNK_SIZE
        TotalStride == SumSizes(Components)
    IN  IF Components = <<>> THEN UsableSpace \div DefaultStride
        ELSE IF TotalStride > 0 THEN UsableSpace \div TotalStride
        ELSE UsableSpace \div DefaultStride

\* The entity capacity BuildLayout computes.
LayoutEntitiesPerChunk(Components) ==
    LET UsableSpace == CHUNK_SIZE - ReservedHeaderSpace
        TotalStride == SumSizes(Components)
    IN  IF Components = <<>> THEN UsableSpace \div DefaultStride
        ELSE IF TotalStride > 0 THEN UsableSpace \div TotalStride
        ELSE UsableSpace \div DefaultStride

\* The keys of ComponentLayout after BuildLayout: the non-decomposed components.
LayoutComponents(Components) ==
    {Components[k].TypeID : k \in {j \in DOMAIN Components : Components[j].Fields = <<>>}}

\* (offset + alignment - 1) & ~(alignment - 1), alignment a power of two.
AlignOffset(offset, alignment) ==
    ((offset + alignment - 1) \div alignment) * alignment

\* The arrays one component contributes to the chunk, in the order
\* BuildLayout lays them out: one per registered field, or the component
\* itself as a single array.
ComponentArrays(comp) ==
    IF comp.Fields # <<>>
    THEN [k \in DOMAIN comp.Fields |->
             [componentID |-> comp.TypeID, fieldIndex |-> k - 1, isDecomposed |-> TRUE,
              Size |-> comp.Fields[k].Size, Alignment |-> comp.Fields[k].Alignment]]
    ELSE <<[componentID |-> comp.TypeID, fieldIndex |-> 0, isDecomposed |-> FALSE,
            Size |-> comp.Size, Alignment |-> comp.Alignment]>>

RECURSIVE LayoutArrays(_)
LayoutArrays(Components) ==
    IF Components = <<>> THEN <<>>
    ELSE ComponentArrays(Head(Components)) \o LayoutArrays(Tail(Components))

\* The loop of BuildLayout over the arrays: each array is aligned, its
\* offset recorded, and currentOffset advanced by EntitiesPerChunk * size.
RECURSIVE PlaceArrays(_, _, _, _)
PlaceArrays(arrays, currentOffset, EntitiesPerChunk, placed) ==
    IF arrays = <<>> THEN [FieldArrays |-> placed, currentOffset |-> currentOffset]
    ELSE LET a      == Head(arrays)
             offset == AlignOffset(currentOffset, a.Alignment)
         IN  PlaceArrays(Tail(arrays), offset + EntitiesPerChunk * a.Size,
                         EntitiesPerChunk,
                         Append(placed, [componentID   |-> a.componentID,
                                         fieldIndex    |-> a.fieldIndex,
                                         isDecomposed  |-> a.isDecomposed,
                                         Size          |-> a.Size,
                                         offsetInChunk |-> offset]))

\* An Archetype as its constructor leaves it.
NewArchetype ==
    [EntitiesPerChunk   |-> 0,
     TotalEntityCount   |-> 0,
     Chunks             |-> <<>>,
     ComponentLayout    |-> {},
     FieldArrays        |-> <<>>,
     TotalFieldArrayCount |-> 0,
     TotalChunkDataSize |-> 0]

\* TotalFieldArrayCount as BuildLayout accumulates it: fields->size() for a
\* decomposed component, 1 for any other.
RECURSIVE CountFieldArrays(_)
CountFieldArrays(Components) ==
    IF Components = <<>> THEN 0
    ELSE (IF Head(Components).Fields # <<>> THEN Len(Head(Components).Fields) ELSE 1)
         + CountFieldArrays(Tail(Components))

\* Archetype::BuildLayout on a new Archetype. FieldArrays joins
\* CachedFieldArrayLayout and FieldArrayTemplateCache (same length, same
\* order) with the element size of each array.
BuildLayout(Components) ==
    LET EntitiesPerChunk == LayoutEntitiesPerChunk(Components)
        done == PlaceArrays(LayoutArrays(Components), ReservedHeaderSpace,
                            EntitiesPerChunk, <<>>)
    IN  IF Components = <<>>
        THEN [EntitiesPerChunk   |-> EntitiesPerChunk,
              TotalEntityCount   |-> 0,
              Chunks             |-> <<>>,
              ComponentLayout    |-> {},
              FieldArrays        |-> <<>>,
              TotalFieldArrayCount |-> 0,
              TotalChunkDataSize |-> 0]
        ELSE [EntitiesPerChunk   |-> EntitiesPerChunk,
              TotalEntityCount   |-> 0,
              Chunks             |-> <<>>,
              ComponentLayout    |-> LayoutComponents(Components),
              FieldArrays        |-> done.FieldArrays,
              TotalFieldArrayCount |-> CountFieldArrays(Components),
              TotalChunkDataSize |-> done.currentOffset]

\* The entries of the layout that wrote FieldOffsets[{typeID, fieldIndex}];
\* the map keeps the last write.
FieldOffsetWrites(arch, typeID, fieldIndex) ==
    {k \in DOMAIN arch.FieldArrays :
        /\ arch.FieldArrays[k].isDecomposed
        /\ arch.FieldArrays[k].componentID = typeID
        /\ arch.FieldArrays[k].fieldIndex = fieldIndex}

\* Mutant of GetFieldArray: the field index is dropped from the key.
GetFieldArray_FirstField(arch, chunk, typeID, fieldIndex) ==
    LET writes == FieldOffsetWrites(arch, typeID, 0)
    IN  IF writes = {} THEN Null
        ELSE chunk + arch.FieldArrays[CHOOSE k \in writes : \A j \in writes : j <= k].offsetInChunk

\* Archetype::GetFieldArray: chunk->GetBuffer(FieldOffsets[key]), nullptr
\* when the key is absent. chunk is the address of chunk->Data.
GetFieldArray(arch, chunk, typeID, fieldIndex) ==
    LET writes == FieldOffsetWrites(arch, typeID, fieldIndex)
    IN  IF writes = {} THEN Null
        ELSE chunk + arch.FieldArrays[CHOOSE k \in writes : \A j \in writes : j <= k].offsetInChunk

\* Archetype::GetComponentArrayRaw: chunk->GetBuffer of the OffsetInChunk
\* BuildLayout last stored in ComponentLayout[typeID], nullptr when absent.
GetComponentArrayRaw(arch, chunk, typeID) ==
    LET writes == {k \in DOMAIN arch.FieldArrays :
                      /\ ~arch.FieldArrays[k].isDecomposed
                      /\ arch.FieldArrays[k].componentID = typeID}
    IN  IF typeID \notin arch.ComponentLayout \/ writes = {} THEN Null
        ELSE chunk + arch.FieldArrays[CHOOSE k \in writes : \A j \in writes : j <= k].offsetInChunk

\* Archetype::BuildFieldArrayTable: one entry per FieldArrayTemplateCache
\* entry, chunkBase + offsetInChunk.
BuildFieldArrayTable(arch, chunk) ==
    [i \in DOMAIN arch.FieldArrays |-> chunk + arch.FieldArrays[i].offsetInChunk]

\* Archetype::BuildFieldArrayTableSlow: one entry per CachedFieldArrayLayout
\* entry, found through the offset maps.
BuildFieldArrayTableSlow(arch, chunk) ==
    [i \in DOMAIN arch.FieldArrays |->
        LET desc == arch.FieldArrays[i]
        IN  IF desc.isDecomposed
            THEN GetFieldArray(arch, chunk, desc.componentID, desc.fieldIndex)
            ELSE GetComponentArrayRaw(arch, chunk, desc.componentID)]

GetFieldArrayCount(arch) == arch.TotalFieldArrayCount

\* Mutant of GetChunkCount: the "last chunk is exactly full" case is lost.
GetChunkCount_NoFullCase(arch, ChunkIndex) ==
    IF Len(arch.Chunks) = 0 \/ ChunkIndex >= Len(arch.Chunks) \/ arch.EntitiesPerChunk = 0
    THEN 0
    ELSE IF ChunkIndex = Len(arch.Chunks) - 1
         THEN arch.TotalEntityCount % arch.EntitiesPerChunk
         ELSE arch.EntitiesPerChunk

GetChunkCount(arch, ChunkIndex) ==
    IF Len(arch.Chunks) = 0 \/ ChunkIndex >= Len(arch.Chunks) \/ arch.EntitiesPerChunk = 0
    THEN 0
    ELSE IF ChunkIndex = Len(arch.Chunks) - 1
         THEN LET Remainder == arch.TotalEntityCount % arch.EntitiesPerChunk
              IN  IF Remainder = 0 /\ arch.TotalEntityCount > 0
                  THEN arch.EntitiesPerChunk ELSE Remainder
         ELSE arch.EntitiesPerChunk

\* Mutant of PushEntity: a new chunk is inserted at the front of Chunks.
PushEntity_PushFront(arch, fresh) ==
    LET epc      == IF arch.EntitiesPerChunk = 0 THEN FallbackEntitiesPerChunk
                    ELSE arch.EntitiesPerChunk
        NeedsNew == arch.TotalEntityCount % epc = 0
        chunks   == IF NeedsNew THEN <<fresh>> \o arch.Chunks ELSE arch.Chunks
        ChunkIndex == arch.TotalEntityCount \div epc
        LocalIndex == arch.TotalEntityCount % epc
    IN  [arch |-> [arch EXCEPT !.EntitiesPerChunk = epc,
                               !.Chunks = chunks,
                               !.TotalEntityCount = arch.TotalEntityCount + 1],
         Slot |-> [TargetChunk |-> chunks[ChunkIndex + 1],
                   LocalIndex  |-> LocalIndex,
                   GlobalIndex |-> arch.TotalEntityCount],
         allocated |-> NeedsNew]

\* Mutant of PushEntity: a chunk is allocated on every push.
PushEntity_AlwaysAllocates(arch, fresh) ==
    LET epc      == IF arch.EntitiesPerChunk = 0 THEN FallbackEntitiesPerChunk
                    ELSE arch.EntitiesPerChunk
        chunks   == Append(arch.Chunks, fresh)
        ChunkIndex == arch.TotalEntityCount \div epc
        LocalIndex == arch.TotalEntityCount % epc
    IN  [arch |-> [arch EXCEPT !.EntitiesPerChunk = epc,
                               !.Chunks = chunks,
                               !.TotalEntityCount = arch.TotalEntityCount + 1],
         Slot |-> [TargetChunk |-> chunks[ChunkIndex + 1],
                   LocalIndex  |-> LocalIndex,
                   GlobalIndex |-> arch.TotalEntityCount],
         allocated |-> TRUE]

\* Mutant of PushEntity: every entity gets the first slot of its chunk.
PushEntity_FirstSlot(arch, fresh) ==
    LET epc      == IF arch.EntitiesPerChunk = 0 THEN FallbackEntitiesPerChunk
                    ELSE arch.EntitiesPerChunk
        NeedsNew == arch.TotalEntityCount % epc = 0
        chunks   == IF NeedsNew THEN Append(arch.Chunks, fresh) ELSE arch.Chunks
        ChunkIndex == arch.TotalEntityCount \div epc
    IN  [arch |-> [arch EXCEPT !.EntitiesPerChunk = epc,
                               !.Chunks = chunks,
                               !.TotalEntityCount = arch.TotalEntityCount + 1],
         Slot |-> [TargetChunk |-> chunks[ChunkIndex + 1],
                   LocalIndex  |-> 0,
                   GlobalIndex |-> arch.TotalEntityCount],
         allocated |-> NeedsNew]

\* PushEntity on arch, new Chunk() returning address `fresh`:
\* the archetype afterwards, the slot returned, whether a chunk was allocated.
PushEntity(arch, fresh) ==
    LET epc      == IF arch.EntitiesPerChunk = 0 THEN FallbackEntitiesPerChunk
                    ELSE arch.EntitiesPerChunk
        NeedsNew == arch.TotalEntityCount % epc = 0
        chunks   == IF NeedsNew THEN Append(arch.Chunks, fresh) ELSE arch.Chunks
        ChunkIndex == arch.TotalEntityCount \div epc
        LocalIndex == arch.TotalEntityCount % epc
    IN  [arch |-> [arch EXCEPT !.EntitiesPerChunk = epc,
                               !.Chunks = chunks,
                               !.TotalEntityCount = arch.TotalEntityCount + 1],
         Slot |-> [TargetChunk |-> chunks[ChunkIndex + 1],
                   LocalIndex  |-> LocalIndex,
                   GlobalIndex |-> arch.TotalEntityCount],
         allocated |-> NeedsNew]

(***************************************************************************)
(* Registry                                                                *)
(***************************************************************************)
\* The signature of a component list, as the value of the bitset: bit
\* TypeID - 1 is set for each component type.
SignatureOf(Components) ==
    LET RECURSIVE Bits(_)
        Bits(S) == IF S = {} THEN 0
                   ELSE LET t == CHOOSE x \in S : TRUE
                        IN  2 ^ (t - 1) + Bits(S \ {t})
    IN  Bits({Components[k].TypeID : k \in DOMAIN Components})

\* InitializeArchetypes: one archetype per distinct signature of ClassToArchetype.
InitializeArchetypes(meta) ==
    [sig \in {SignatureOf(meta[c]) : c \in DOMAIN meta} |->
        BuildLayout(CHOOSE comps \in {meta[c] : c \in DOMAIN meta} : SignatureOf(comps) = sig)]

EntityIndexSize == Cardinality(DOMAIN EntityIndex)

\* Mutant of NextGeneration: the wrap to 0 is not skipped.
NextGeneration_NoSkip(g) == (g + 1) % GenLimit

\* Mutant of NextGeneration: the recycled index keeps its generation.
NextGeneration_NoIncrement(g) == IF g = 0 THEN 1 ELSE g

\* uint16_t Generation = EntityIndex[Index].Generation + 1; 0 is skipped.
NextGeneration(g) ==
    LET Generation == (g + 1) % GenLimit
    IN  IF Generation = 0 THEN 1 ELSE Generation

\* Mutant of AllocateEntityID: the free list is used as a stack.
AllocateEntityID_Lifo(TypeID) ==
    IF FreeIndices # <<>>
    THEN LET Index == FreeIndices[Len(FreeIndices)]
         IN  [Id   |-> MakeID(Index, NextGeneration(EntityIndex[Index].Generation), TypeID),
              free |-> SubSeq(FreeIndices, 1, Len(FreeIndices) - 1),
              next |-> NextEntityIndex]
    ELSE [Id   |-> MakeID(NextEntityIndex % IndexLimit, 1, TypeID),
          free |-> FreeIndices,
          next |-> NextEntityIndex + 1]

\* AllocateEntityID: the id, and FreeIndices / NextEntityIndex afterwards.
AllocateEntityID(TypeID) ==
    IF FreeIndices # <<>>
    THEN LET Index == Head(FreeIndices)
         IN  [Id   |-> MakeID(Index, NextGeneration(EntityIndex[Index].Generation), TypeID),
              free |-> Tail(FreeIndices),
              next |-> NextEntityIndex]
    ELSE [Id   |-> MakeID(NextEntityIndex % IndexLimit, 1, TypeID),
          free |-> FreeIndices,
          next |-> NextEntityIndex + 1]

\* std::vector::resize(n) of the EntityIndex table.
Resize(table, n) ==
    [i \in 0..(n - 1) |-> IF i \in DOMAIN table THEN table[i] ELSE EmptyRecord]

GetTotalEntityCount ==
    LET RECURSIVE Sum(_)
        Sum(S) == IF S = {} THEN 0
                  ELSE LET s == CHOOSE x \in S : TRUE
                       IN  Archetypes[s].TotalEntityCount + Sum(S \ {s})
    IN  Sum(DOMAIN Archetypes)

NoSlot == [TargetChunk |-> Null, LocalIndex |-> 0, GlobalIndex |-> 0]

\* ret: the call (op), its EntityID argument or result (Id), and for Create
\* the archetype pushed to (sig), the slot PushEntity returned, whether a
\* chunk was allocated and whether the index came from FreeIndices; for
\* ProcessDeferredDestructions the list it processed (pending).
NoRet == [op |-> "none", Id |-> Invalid, sig |-> Null, Slot |-> NoSlot,
          allocated |-> FALSE, fromFree |-> FALSE, pending |-> <<>>]

\* The process has not been ended by a failed assert.
Running == ret.op # "abort"

\* Registry::Create<T>() for the registered class T with class id c.
Create(c) ==
    /\ Running
    /\ c \in DOMAIN ClassToArchetype
    /\ GetTotalEntityCount < MaxCreates
    /\ LET sig    == SignatureOf(ClassToArchetype[c])
           alloc  == AllocateEntityID(c)
           Id     == alloc.Id
           push   == PushEntity(Archetypes[sig], heapNext)
           Index  == Id.Index
           grown  == IF Index >= EntityIndexSize THEN Resize(EntityIndex, Index * 2)
                     ELSE EntityIndex
           Record == [Arch        |-> sig,
                      TargetChunk |-> push.Slot.TargetChunk,
                      Index       |-> push.Slot.LocalIndex % LocalIndexLimit,
                      Generation  |-> Id.Generation]
       IN  /\ FreeIndices' = alloc.free
           /\ NextEntityIndex' = alloc.next
           /\ Archetypes' = [Archetypes EXCEPT ![sig] = push.arch]
           /\ heapNext' = IF push.allocated THEN heapNext + 1 ELSE heapNext
           /\ EntityIndex' = [grown EXCEPT ![Index] = Record]
           /\ ret' = [NoRet EXCEPT !.op = "Create", !.Id = Id, !.sig = sig,
                                   !.Slot = push.Slot, !.allocated = push.allocated,
                                   !.fromFree = (FreeIndices # <<>>)]
           /\ Live' = Live \cup {[Id |-> Id, Arch |-> sig,
                                  TargetChunk |-> push.Slot.TargetChunk,
                                  LocalIndex |-> push.Slot.LocalIndex]}
           /\ Issued' = Issued \cup {Id}
           /\ freedOrder' = IF FreeIndices # <<>> THEN Tail(freedOrder) ELSE freedOrder
    /\ UNCHANGED <<ClassToArchetype, PendingDestructions>>
    /\ UNCHANGED <<Build, nonRegistryVars>>

\* Mutant of FreeEntityID: the record is left as it was.
FreeEntityID_KeepsRecord(Id, table, free, freed) ==
    LET Index == Id.Index
    IN  IF Index >= Cardinality(DOMAIN table)
        THEN [table |-> table, free |-> free, freed |-> freed]
        ELSE [table |-> table,
              free  |-> Append(free, Index),
              freed |-> Append(freed, Id)]

\* Registry::FreeEntityID on the table `table` and the queue `free`;
\* `freed` logs the ids whose index was pushed.
FreeEntityID(Id, table, free, freed) ==
    LET Index == Id.Index
    IN  IF Index >= Cardinality(DOMAIN table)
        THEN [table |-> table, free |-> free, freed |-> freed]
        ELSE [table |-> [table EXCEPT ![Index].Arch = Null, ![Index].TargetChunk = Null],
              free  |-> Append(free, Index),
              freed |-> Append(freed, Id)]

\* Mutant of ProcessOne: the record's validity is not checked.
ProcessOne_NoValidCheck(Id, table, free, freed) ==
    LET skip == [table |-> table, free |-> free, freed |-> freed]
    IN  IF ~IsValid(Id) THEN skip
        ELSE IF Id.Index >= Cardinality(DOMAIN table) THEN skip
        ELSE IF table[Id.Index].Generation # Id.Generation THEN skip
        ELSE FreeEntityID(Id, table, free, freed)

\* One iteration of the loop of ProcessDeferredDestructions.
ProcessOne(Id, table, free, freed) ==
    LET skip == [table |-> table, free |-> free, freed |-> freed]
    IN  IF ~IsValid(Id) THEN skip
        ELSE IF Id.Index >= Cardinality(DOMAIN table) THEN skip
        ELSE IF table[Id.Index].Generation # Id.Generation THEN skip
        ELSE IF ~RecordIsValid(table[Id.Index]) THEN skip
        ELSE FreeEntityID(Id, table, free, freed)

RECURSIVE ProcessAll(_, _, _, _)
ProcessAll(pending, table, free, freed) ==
    IF pending = <<>> THEN [table |-> table, free |-> free, freed |-> freed]
    ELSE LET one == ProcessOne(Head(pending), table, free, freed)
         IN  ProcessAll(Tail(pending), one.table, one.free, one.freed)

\* The handles passed to Destroy: the ids Create has returned (live or
\* stale), the 0 handle, and a handle that Create has not returned (its
\* index lies outside the table until the table has grown that far).
DestroyInputs == Issued \cup {Invalid, MakeID(IndexLimit - 1, 1, 1)}

\* Mutant of Destroy: the entity is freed at once.
Destroy_Immediate(Id) ==
    /\ Running
    /\ Len(PendingDestructions) < MaxPending
    /\ PendingDestructions' = Append(PendingDestructions, Id)
    /\ LET one == ProcessOne(Id, EntityIndex, FreeIndices, <<>>)
       IN  /\ EntityIndex' = one.table
           /\ FreeIndices' = one.free
           /\ freedOrder' = freedOrder \o one.freed
    /\ ret' = [NoRet EXCEPT !.op = "Destroy", !.Id = Id]
    /\ UNCHANGED <<ClassToArchetype, Archetypes, NextEntityIndex, heapNext, Live, Issued>>
    /\ UNCHANGED <<Build, nonRegistryVars>>

\* Registry::Destroy(Id)
Destroy(Id) ==
    /\ Running
    /\ Len(PendingDestructions) < MaxPending
    /\ PendingDestructions' = Append(PendingDestructions, Id)
    /\ ret' = [NoRet EXCEPT !.op = "Destroy", !.Id = Id]
    /\ UNCHANGED <<ClassToArchetype, Archetypes, EntityIndex, FreeIndices,
                   NextEntityIndex, heapNext, Live, Issued, freedOrder>>
    /\ UNCHANGED <<Build, nonRegistryVars>>

\* Mutant of ProcessDeferredDestructions: every freed entity is taken out
\* of its archetype's TotalEntityCount.
ProcessDeferredDestructions_Shrinks ==
    LET done == ProcessAll(PendingDestructions, EntityIndex, FreeIndices, <<>>)
        hit(e) == \E k \in DOMAIN PendingDestructions :
                      /\ PendingDestructions[k].Index = e.Id.Index
                      /\ PendingDestructions[k].Generation = e.Id.Generation
                      /\ IsValid(PendingDestructions[k])
        gone(sig) == Cardinality({k \in DOMAIN done.freed :
                                     EntityIndex[done.freed[k].Index].Arch = sig})
    IN  /\ Running
        /\ EntityIndex' = done.table
        /\ FreeIndices' = done.free
        /\ PendingDestructions' = <<>>
        /\ ret' = [NoRet EXCEPT !.op = "Process", !.pending = PendingDestructions]
        /\ Live' = {e \in Live : ~hit(e)}
        /\ freedOrder' = freedOrder \o done.freed
        /\ Archetypes' = [sig \in DOMAIN Archetypes |->
                             [Archetypes[sig] EXCEPT !.TotalEntityCount = @ - gone(sig)]]
        /\ UNCHANGED <<ClassToArchetype, NextEntityIndex, heapNext, Issued>>
        /\ UNCHANGED <<Build, nonRegistryVars>>

\* Registry::ProcessDeferredDestructions()
ProcessDeferredDestructions ==
    LET done == ProcessAll(PendingDestructions, EntityIndex, FreeIndices, <<>>)
        hit(e) == \E k \in DOMAIN PendingDestructions :
                      /\ PendingDestructions[k].Index = e.Id.Index
                      /\ PendingDestructions[k].Generation = e.Id.Generation
                      /\ IsValid(PendingDestructions[k])
    IN  /\ Running
        /\ EntityIndex' = done.table
        /\ FreeIndices' = done.free
        /\ PendingDestructions' = <<>>
        /\ ret' = [NoRet EXCEPT !.op = "Process", !.pending = PendingDestructions]
        /\ Live' = {e \in Live : ~hit(e)}
        /\ freedOrder' = freedOrder \o done.freed
        /\ UNCHANGED <<ClassToArchetype, Archetypes, NextEntityIndex, heapNext, Issued>>
        /\ UNCHANGED <<Build, nonRegistryVars>>

\* Mutant of GetComponent: the generation is not compared.
GetComponent_NoGenerationCheck(Id, TypeID, table, archs) ==
    LET miss == [found |-> FALSE, deref |-> FALSE, chunk |-> Null, index |-> 0]
    IN  IF ~IsValid(Id) THEN miss
        ELSE IF Id.Index >= Cardinality(DOMAIN table) THEN miss
        ELSE IF ~RecordIsValid(table[Id.Index]) THEN miss
        ELSE LET Record == table[Id.Index]
             IN  IF TypeID \notin archs[Record.Arch].ComponentLayout
                 THEN [miss EXCEPT !.deref = TRUE]
                 ELSE [found |-> TRUE, deref |-> TRUE,
                       chunk |-> Record.TargetChunk, index |-> Record.Index]

\* Registry::GetComponent<T>(Id), T having component type id TypeID, on the
\* table `table`: whether a component was returned, where it lies, and
\* whether Record.Arch / Record.TargetChunk were dereferenced.
GetComponent(Id, TypeID, table, archs) ==
    LET miss == [found |-> FALSE, deref |-> FALSE, chunk |-> Null, index |-> 0]
    IN  IF ~IsValid(Id) THEN miss
        ELSE IF Id.Index >= Cardinality(DOMAIN table) THEN miss
        ELSE IF table[Id.Index].Generation # Id.Generation THEN miss
        ELSE IF ~RecordIsValid(table[Id.Index]) THEN miss
        ELSE LET Record == table[Id.Index]
             IN  IF TypeID \notin archs[Record.Arch].ComponentLayout
                 THEN [miss EXCEPT !.deref = TRUE]
                 ELSE [found |-> TRUE, deref |-> TRUE,
                       chunk |-> Record.TargetChunk, index |-> Record.Index]

HasComponent(Id, TypeID, table, archs) == GetComponent(Id, TypeID, table, archs).found

\* No Archetype is under construction on its own.
NoLayout ==
    [Components |-> <<>>, built |-> FALSE, arch |-> NewArchetype,
     chunk |-> Null, table |-> <<>>, slowTable |-> <<>>]

Init ==
    /\ snap = NoSnapshot
    /\ proc = NoProcess
    /\ metareg = NoMetaRegistry
    /\ ring = NoRing
    /\ rt = NoRender
    /\ mail = NoMail
    /\ bind = NoBind
    /\ proxy = NoProxy
    /\ ClassToArchetype \in [ClassIDs -> Prefabs]
    /\ Archetypes = InitializeArchetypes(ClassToArchetype)
    /\ EntityIndex = <<>>
    /\ FreeIndices = <<>>
    /\ NextEntityIndex = 1
    /\ PendingDestructions = <<>>
    /\ heapNext = 1
    /\ ret = NoRet
    /\ Build = "release"
    /\ Live = {}
    /\ Issued = {}
    /\ freedOrder = <<>>
    /\ layout = NoLayout
    /\ inv = NoInvoke
    /\ world = NoWorld
    /\ logic = NoLogic

Next ==
    \/ \E c \in ClassIDs : Create(c)
    \/ \E Id \in DestroyInputs : Destroy(Id)
    \/ ProcessDeferredDestructions

Spec == Init /\ [][Next]_vars

(***************************************************************************)
(* Registry::Create<T>() for a class that no STRIGID_REGISTER_ENTITY       *)
(* registered.                                                             *)
(***************************************************************************)
\* Class ids of entity types that were never reflected.
UnregisteredClassIDs == {2}

Builds == {"release", "debug", "debug_ndebug"}

\* Registry::GetOrCreateArchetype(Sig) on the archetype map archs: the
\* existing archetype of the signature, or a new one with an empty layout.
GetOrCreateArchetype(archs, Sig) ==
    IF Sig \in DOMAIN archs THEN archs
    ELSE [s \in DOMAIN archs \cup {Sig} |->
             IF s = Sig THEN BuildLayout(<<>>) ELSE archs[s]]

\* Registry::Create<T>(), T not in MetaRegistry::ClassToArchetype. Under
\* _DEBUG the guard logs and asserts (or, assert compiled out, returns
\* EntityID{}); without _DEBUG there is no guard: metaComponents[classID]
\* inserts an empty signature and the entity is created.
CreateUnregistered(c) ==
    /\ Running
    /\ c \notin DOMAIN ClassToArchetype
    /\ GetTotalEntityCount < MaxCreates
    /\ \/ /\ Build = "debug"
          /\ ret' = [NoRet EXCEPT !.op = "abort"]
          /\ UNCHANGED <<ClassToArchetype, Archetypes, EntityIndex, FreeIndices,
                         NextEntityIndex, PendingDestructions, heapNext, Live, Issued,
                         freedOrder>>
       \/ /\ Build = "debug_ndebug"
          /\ ret' = [NoRet EXCEPT !.op = "CreateUnregistered", !.Id = Invalid]
          /\ UNCHANGED <<ClassToArchetype, Archetypes, EntityIndex, FreeIndices,
                         NextEntityIndex, PendingDestructions, heapNext, Live, Issued,
                         freedOrder>>
       \/ /\ Build = "release"
          /\ LET meta   == [k \in DOMAIN ClassToArchetype \cup {c} |->
                               IF k = c THEN <<>> ELSE ClassToArchetype[k]]
                 sig    == SignatureOf(meta[c])
                 archs  == GetOrCreateArchetype(Archetypes, sig)
                 alloc  == AllocateEntityID(c)
                 Id     == alloc.Id
                 push   == PushEntity(archs[sig], heapNext)
                 Index  == Id.Index
                 grown  == IF Index >= EntityIndexSize THEN Resize(EntityIndex, Index * 2)
                           ELSE EntityIndex
                 Record == [Arch        |-> sig,
                            TargetChunk |-> push.Slot.TargetChunk,
                            Index       |-> push.Slot.LocalIndex % LocalIndexLimit,
                            Generation  |-> Id.Generation]
             IN  /\ ClassToArchetype' = meta
                 /\ FreeIndices' = alloc.free
                 /\ NextEntityIndex' = alloc.next
                 /\ Archetypes' = [archs EXCEPT ![sig] = push.arch]
                 /\ heapNext' = IF push.allocated THEN heapNext + 1 ELSE heapNext
                 /\ EntityIndex' = [grown EXCEPT ![Index] = Record]
                 /\ ret' = [NoRet EXCEPT !.op = "CreateUnregistered", !.Id = Id,
                                         !.sig = sig, !.Slot = push.Slot,
                                         !.allocated = push.allocated,
                                         !.fromFree = (FreeIndices # <<>>)]
                 /\ Live' = Live \cup {[Id |-> Id, Arch |-> sig,
                                        TargetChunk |-> push.Slot.TargetChunk,
                                        LocalIndex |-> push.Slot.LocalIndex]}
                 /\ Issued' = Issued \cup {Id}
                 /\ freedOrder' = IF FreeIndices # <<>> THEN Tail(freedOrder)
                                  ELSE freedOrder
          /\ UNCHANGED PendingDestructions
    /\ UNCHANGED <<Build, nonRegistryVars>>

InitAnyClass ==
    /\ snap = NoSnapshot
    /\ proc = NoProcess
    /\ metareg = NoMetaRegistry
    /\ ring = NoRing
    /\ rt = NoRender
    /\ mail = NoMail
    /\ bind = NoBind
    /\ proxy = NoProxy
    /\ ClassToArchetype \in [ClassIDs -> Prefabs]
    /\ Archetypes = InitializeArchetypes(ClassToArchetype)
    /\ EntityIndex = <<>>
    /\ FreeIndices = <<>>
    /\ NextEntityIndex = 1
    /\ PendingDestructions = <<>>
    /\ heapNext = 1
    /\ ret = NoRet
    /\ Build \in Builds
    /\ Live = {}
    /\ Issued = {}
    /\ freedOrder = <<>>
    /\ layout = NoLayout
    /\ inv = NoInvoke
    /\ world = NoWorld
    /\ logic = NoLogic

NextAnyClass ==
    \/ \E c \in ClassIDs : Create(c)
    \/ \E c \in UnregisteredClassIDs : CreateUnregistered(c)
    \/ \E Id \in DestroyInputs : Destroy(Id)
    \/ ProcessDeferredDestructions

AnyClassSpec == InitAnyClass /\ [][NextAnyClass]_vars

(***************************************************************************)
(* Archetype::BuildLayout on its own: a new Archetype is handed a          *)
(* component list and BuildLayout runs on it.                              *)
(***************************************************************************)
\* The component types the lists are drawn from: plain arrays of 1 and 16
\* bytes, a Transform-like decomposed component whose fields do not fill
\* the struct, a decomposed component of two floats, and a component larger
\* than a chunk.
LayoutMetas ==
    { [TypeID |-> 1, Size |-> 1,  Alignment |-> 1,  Fields |-> <<>>],
      [TypeID |-> 2, Size |-> 16, Alignment |-> 16, Fields |-> <<>>],
      [TypeID |-> 3, Size |-> 1,  Alignment |-> 1,  Fields |-> <<>>],
      [TypeID |-> 4, Size |-> 16, Alignment |-> 16,
       Fields |-> <<[Size |-> 4, Alignment |-> 4], [Size |-> 4, Alignment |-> 4],
                    [Size |-> 4, Alignment |-> 4]>>],
      [TypeID |-> 5, Size |-> 8,  Alignment |-> 4,
       Fields |-> <<[Size |-> 4, Alignment |-> 4], [Size |-> 4, Alignment |-> 4]>>],
      [TypeID |-> 6, Size |-> 70000, Alignment |-> 8, Fields |-> <<>>] }

\* The component lists: up to MaxComponents distinct component types.
ComponentLists ==
    UNION { {seq \in [1..n -> LayoutMetas] :
                \A i, j \in 1..n : i # j => seq[i] # seq[j]} : n \in 0..MaxComponents }

\* A Registry that holds nothing.
IdleRegistry ==
    /\ ClassToArchetype = <<>>
    /\ Archetypes = <<>>
    /\ EntityIndex = <<>>
    /\ FreeIndices = <<>>
    /\ NextEntityIndex = 1
    /\ PendingDestructions = <<>>
    /\ heapNext = 1
    /\ ret = NoRet
    /\ Build = "release"
    /\ Live = {}
    /\ Issued = {}
    /\ freedOrder = <<>>

InitLayout ==
    /\ snap = NoSnapshot
    /\ proc = NoProcess
    /\ metareg = NoMetaRegistry
    /\ ring = NoRing
    /\ rt = NoRender
    /\ mail = NoMail
    /\ bind = NoBind
    /\ proxy = NoProxy
    /\ IdleRegistry
    /\ inv = NoInvoke
    /\ world = NoWorld
    /\ logic = NoLogic
    /\ layout \in {[Components |-> c, built |-> FALSE, arch |-> NewArchetype,
                      chunk |-> Null, table |-> <<>>, slowTable |-> <<>>] :
                      c \in ComponentLists}

\* NewArch->BuildLayout(Components)
CallBuildLayout ==
    /\ ~layout.built
    /\ layout' = [layout EXCEPT !.built = TRUE, !.arch = BuildLayout(layout.Components)]
    /\ UNCHANGED nonLayoutVars

\* The addresses of the Data of the chunks a table is built for.
ChunkAddresses == {k * CHUNK_SIZE : k \in 1..MaxLayoutChunks}

\* Both table builders run on one chunk of the archetype; the tables they
\* fill are kept side by side.
CallBuildFieldArrayTable ==
    /\ layout.built
    /\ \E chunk \in ChunkAddresses :
          layout' = [layout EXCEPT
                        !.chunk = chunk,
                        !.table = BuildFieldArrayTable(layout.arch, chunk),
                        !.slowTable = BuildFieldArrayTableSlow(layout.arch, chunk)]
    /\ UNCHANGED nonLayoutVars

NextLayout == CallBuildLayout \/ CallBuildFieldArrayTable

LayoutSpec == InitLayout /\ [][NextLayout]_vars

(***************************************************************************)
(* BuildLayout and BuildFieldArrayTable for classes of many components:    *)
(* component t of a class is decomposed into 4 or 12 float fields (as      *)
(* ColorData and Transform are) or is laid out as one array. The lifecycle *)
(* phases hand BuildFieldArrayTable a stack table of MAX_FIELD_ARRAYS      *)
(* entries.                                                                *)
(***************************************************************************)
MAX_FIELD_ARRAYS == 64

WideMeta(TypeID, fieldCount) ==
    [TypeID |-> TypeID, Size |-> IF fieldCount = 0 THEN 16 ELSE 4 * fieldCount,
     Alignment |-> 16,
     Fields |-> [k \in 1..fieldCount |-> [Size |-> 4, Alignment |-> 4]]]

WideComponentLists ==
    UNION { {[t \in 1..n |-> WideMeta(t, fieldCounts[t])] :
                fieldCounts \in [1..n -> {0, 4, 12}]} : n \in 0..MaxWideComponents }

InitWideLayout ==
    /\ snap = NoSnapshot
    /\ proc = NoProcess
    /\ IdleRegistry
    /\ inv = NoInvoke
    /\ world = NoWorld
    /\ logic = NoLogic
    /\ proxy = NoProxy
    /\ bind = NoBind
    /\ mail = NoMail
    /\ rt = NoRender
    /\ ring = NoRing
    /\ metareg = NoMetaRegistry
    /\ layout \in {[Components |-> c, built |-> FALSE, arch |-> NewArchetype,
                      chunk |-> Null, table |-> <<>>, slowTable |-> <<>>] :
                      c \in WideComponentLists}

WideLayoutSpec == InitWideLayout /\ [][NextLayout]_vars

(***************************************************************************)
(* Lifecycle invokers (InvokePrePhysicsImpl<T>) and FieldProxy.            *)
(* A view is [index, MASK, count]: the index every FieldProxy of the view  *)
(* is bound at, whether the view type is the masked one, and the count     *)
(* Bind built the lane mask from. mem maps each field to its array.        *)
(***************************************************************************)
EntityClasses == {"CubeEntity", "SuperCube"}

\* T::MaskedType
MaskedType(T) == "CubeEntity"

\* The fields of Transform that the lifecycle methods touch.
FieldNames == {"PositionX", "RotationX", "RotationY", "RotationZ"}

LaneIndices == 0..(SIMD_BATCH - 1)

\* FieldProxy::Bind: mask = (count > lane); a store of the unmasked type
\* (_mm256_storeu_ps) ignores the mask and writes every lane.
ActiveLanes(view) ==
    IF view.MASK THEN {l \in LaneIndices : view.count > l} ELSE LaneIndices

\* Hydrate: every FieldProxy of the view is bound at startIndex with count.
Hydrate(MASK, startIndex, count) == [index |-> startIndex, MASK |-> MASK, count |-> count]

\* Traits::load(&array[index])
Load(array, index) == [l \in LaneIndices |-> array[index + l]]

\* Traits::store(&array[index], mask, val)
Store(array, view, val) ==
    [k \in DOMAIN array |->
        IF (k - view.index) \in ActiveLanes(view) THEN val[k - view.index] ELSE array[k]]

\* FieldProxy::operator FieldType(): the element at index, the first lane.
Read(mem, f, view) == mem[f][view.index]

\* FieldProxy::operator+=
AddAssign(mem, f, view, value) ==
    LET vec == Load(mem[f], view.index)
    IN  [mem EXCEPT ![f] = Store(mem[f], view, [l \in LaneIndices |-> vec[l] + value])]

\* FieldProxy::operator-=
SubAssign(mem, f, view, value) ==
    LET vec == Load(mem[f], view.index)
    IN  [mem EXCEPT ![f] = Store(mem[f], view, [l \in LaneIndices |-> vec[l] - value])]

\* static_cast<float>(dt) * 0.n f, in tenths.
Scaled(dt, n) == (dt * n) \div 10

\* BaseCube::PrePhysics
BaseCubePrePhysics(mem, view, dt) ==
    LET m1 == AddAssign(mem, "PositionX", view, dt)
        m2 == AddAssign(m1, "RotationY", view, Scaled(dt, 7))
    IN  AddAssign(m2, "RotationZ", view, Scaled(dt, 6))

\* SuperCube::PrePhysics
SuperCubePrePhysics(mem, view, dt) ==
    LET m1 == AddAssign(mem, "RotationX", view, dt)
        m2 == IF Read(m1, "RotationX", view) > TWO_PI
              THEN SubAssign(m1, "RotationX", view, TWO_PI) ELSE m1
        m3 == AddAssign(m2, "RotationY", view, Scaled(dt, 7))
        m4 == IF Read(m3, "RotationY", view) > TWO_PI
              THEN SubAssign(m3, "RotationY", view, TWO_PI) ELSE m3
        m5 == AddAssign(m4, "RotationZ", view, Scaled(dt, 5))
    IN  IF Read(m5, "RotationZ", view) > TWO_PI
        THEN SubAssign(m5, "RotationZ", view, TWO_PI) ELSE m5

\* view.PrePhysics(dt) for a view of class T: SuperCube defines its own
\* PrePhysics, CubeEntity inherits BaseCube's.
PrePhysics(T, mem, view, dt) ==
    IF T = "SuperCube" THEN SuperCubePrePhysics(mem, view, dt)
    ELSE BaseCubePrePhysics(mem, view, dt)

\* const uint32_t batchCount = componentCount / SIMD_BATCH
BatchCount(componentCount) == componentCount \div SIMD_BATCH

\* Mutant of TailHydrate: the tail view is hydrated with every lane active.
TailHydrate_AllLanes(componentCount) ==
    Hydrate(TRUE, SIMD_BATCH * BatchCount(componentCount), SIMD_BATCH)

\* tailBatch.Hydrate(fieldArrayTable, SIMD_BATCH * batchCount,
\*                   componentCount % SIMD_BATCH)
TailHydrate(componentCount) ==
    Hydrate(TRUE, SIMD_BATCH * BatchCount(componentCount), componentCount % SIMD_BATCH)

\* The field arrays of a chunk of componentCount entities: every field 0,
\* but RotationX of entity `hot`, which is 6.0 (one step of dt = 1 takes it
\* over TWO_PI). The arrays extend past componentCount to the end of the
\* batch after the last full one.
ChunkArrays(componentCount, hot) ==
    [f \in FieldNames |->
        [k \in 0..(SIMD_BATCH * (BatchCount(componentCount) + 1) - 1) |->
            IF f = "RotationX" /\ k = hot THEN 60 ELSE 0]]

InitInvoker ==
    /\ snap = NoSnapshot
    /\ proc = NoProcess
    /\ metareg = NoMetaRegistry
    /\ ring = NoRing
    /\ rt = NoRender
    /\ mail = NoMail
    /\ bind = NoBind
    /\ proxy = NoProxy
    /\ IdleRegistry
    /\ layout = NoLayout
    /\ world = NoWorld
    /\ logic = NoLogic
    /\ inv \in {[pc |-> "Idle", T |-> T, dt |-> 10, componentCount |-> n,
                  mem |-> ChunkArrays(n, hot), mem0 |-> ChunkArrays(n, hot),
                  i |-> 0, view |-> Hydrate(FALSE, 0, -1),
                  calls |-> <<>>, written |-> {}] :
                    T \in EntityClasses, n \in 0..MaxEntityCount,
                    hot \in -1..MaxEntityCount}
    /\ inv.mem = ChunkArrays(inv.componentCount, -1)
          \/ \E hot \in 0..(inv.componentCount - 1) :
                 inv.mem = ChunkArrays(inv.componentCount, hot)

\* viewBatch.Hydrate(fieldArrayTable)
HydrateBatchView ==
    /\ inv.pc = "Idle"
    /\ inv' = [inv EXCEPT !.pc = "Batch", !.i = 0, !.view = Hydrate(FALSE, 0, -1)]
    /\ UNCHANGED nonInvokerVars

\* One pass of the loop: viewBatch.PrePhysics(dt); viewBatch.Advance(SIMD_BATCH)
BatchStep ==
    /\ inv.pc = "Batch"
    /\ inv.i < BatchCount(inv.componentCount)
    /\ inv' = [inv EXCEPT
                 !.mem = PrePhysics(inv.T, inv.mem, inv.view, inv.dt),
                 !.view = [inv.view EXCEPT !.index = @ + SIMD_BATCH],
                 !.i = @ + 1,
                 !.calls = Append(@, [T |-> inv.T, view |-> inv.view]),
                 !.written = @ \cup {inv.view.index + l : l \in ActiveLanes(inv.view)}]
    /\ UNCHANGED nonInvokerVars

\* The tail: tailBatch.Hydrate(...); tailBatch.PrePhysics(dt)
TailStep ==
    /\ inv.pc = "Batch"
    /\ ~(inv.i < BatchCount(inv.componentCount))
    /\ LET tailBatch == TailHydrate(inv.componentCount)
       IN  inv' = [inv EXCEPT
                     !.mem = PrePhysics(MaskedType(inv.T), inv.mem, tailBatch, inv.dt),
                     !.pc = "Done",
                     !.calls = Append(@, [T |-> MaskedType(inv.T), view |-> tailBatch]),
                     !.written = @ \cup {tailBatch.index + l : l \in ActiveLanes(tailBatch)}]
    /\ UNCHANGED nonInvokerVars

NextInvoker == HydrateBatchView \/ BatchStep \/ TailStep

InvokerSpec == InitInvoker /\ [][NextInvoker]_vars

(***************************************************************************)
(* A Registry with several entity classes: the archetype map built by      *)
(* InitializeArchetypes, ComponentQuery, and the lifecycle phases          *)
(* InvokePrePhys / InvokeUpdate / InvokePostPhys scanning it. The map is   *)
(* a sequence of entries [Sig, Arch, ResidentClassIDs, data]: Arch is the  *)
(* address of the Archetype, data its fields.                              *)
(***************************************************************************)
WorldClassIDs == {1, 2}

Phases == {"PrePhys", "Update", "PostPhys"}

MetaOf(t) == CHOOSE m \in ComponentMetas : m.TypeID = t

\* Component lists of the classes: none, {1}, {2} and {1, 2}
\* (1023, 2, 3 and 1 entities per chunk).
WorldPrefabs == {<<>>, <<MetaOf(1)>>, <<MetaOf(2)>>, <<MetaOf(1), MetaOf(2)>>}

\* The lifecycle methods a class defines (HasPrePhysics / HasUpdate /
\* HasPostPhysics), i.e. the non-null invokers of its EntityMeta.
PhaseSets == {{}, {"PrePhys"}, {"Update", "PostPhys"}}

\* Bits & Other.Bits
RECURSIVE BitAnd(_, _)
BitAnd(a, b) ==
    IF a = 0 \/ b = 0 THEN 0
    ELSE (a % 2) * (b % 2) + 2 * BitAnd(a \div 2, b \div 2)

\* Signature::Contains
Contains(Sig, Other) == BitAnd(Sig, Other) = Other

\* Registry::BuildSignature<Components...>: Sig.Set(TypeID - 1) for each.
BuildSignature(TypeIDs) ==
    LET RECURSIVE Bits(_)
        Bits(S) == IF S = {} THEN 0
                   ELSE LET t == CHOOSE x \in S : TRUE
                        IN  2 ^ (t - 1) + Bits(S \ {t})
    IN  Bits(TypeIDs)

\* The orders in which a container holding the elements S may be iterated.
Orders(S) ==
    {seq \in [1..Cardinality(S) -> S] :
        \A i, j \in 1..Cardinality(S) : i # j => seq[i] # seq[j]}

\* The key of the archetype map. Registry.h declares the map over
\* Archetype::ArchetypeKey (Sig, ID) and Create<T> passes the ClassID;
\* Registry.cpp indexes the map by the signature alone (ID 0 here).
Keyings == {"ArchetypeKey", "Signature"}

KeyOf(keying, Sig, c) ==
    [Sig |-> Sig, ID |-> IF keying = "ArchetypeKey" THEN c ELSE 0]

\* ArchetypeKey::operator==
KeyEquals(key, other) == key.ID = other.ID /\ key.Sig = other.Sig

\* Archetypes.find(key) / Archetypes[key]: the position of the entry whose
\* key equals key, 0 when there is none.
Find(entries, key) ==
    LET hits == {k \in DOMAIN entries : KeyEquals(entries[k].key, key)}
    IN  IF hits = {} THEN 0 ELSE CHOOSE k \in hits : \A j \in hits : k <= j

\* The loop of InitializeArchetypes over MR.ClassToArchetype, iterated in
\* the order `order`; addr is the address the next new Archetype gets.
RECURSIVE InitializeArchetypeEntries(_, _, _, _, _)
InitializeArchetypeEntries(keying, order, meta, entries, addr) ==
    IF order = <<>> THEN entries
    ELSE LET c   == Head(order)
             Sig == SignatureOf(meta[c].Components)
             key == KeyOf(keying, Sig, c)
             k   == Find(entries, key)
         IN  IF k = 0
             THEN InitializeArchetypeEntries(keying, Tail(order), meta,
                      Append(entries, [key |-> key, Sig |-> Sig, Arch |-> addr,
                                       ResidentClassIDs |-> <<c>>,
                                       data |-> BuildLayout(meta[c].Components)]),
                      addr + 1)
             ELSE InitializeArchetypeEntries(keying, Tail(order), meta,
                      [entries EXCEPT ![k].ResidentClassIDs = Append(@, c)], addr)

\* n calls of PushEntity on every archetype of entries, counts[k] on the
\* k-th; heap is the next chunk address.
RECURSIVE PushMany(_, _, _)
PushMany(arch, n, heap) ==
    IF n = 0 THEN [arch |-> arch, heap |-> heap]
    ELSE LET push == PushEntity(arch, heap)
         IN  PushMany(push.arch, n - 1, IF push.allocated THEN heap + 1 ELSE heap)

RECURSIVE Populate(_, _, _, _)
Populate(entries, counts, k, heap) ==
    IF k > Len(entries) THEN entries
    ELSE LET done == PushMany(entries[k].data, counts[k], heap)
         IN  Populate([entries EXCEPT ![k].data = done.arch], counts, k + 1, done.heap)

\* The loop of ComponentQuery over the map iterated as `iter`.
RECURSIVE QueryLoop(_, _, _, _)
QueryLoop(iter, Sig, Results, ArchPtr) ==
    IF iter = <<>> THEN Results
    ELSE LET Valid == Contains(Head(iter).Sig, Sig)
         IN  QueryLoop(Tail(iter), Sig,
                       [Results EXCEPT ![ArchPtr] = Head(iter).Arch],
                       IF Valid THEN ArchPtr + 1 ELSE ArchPtr)

\* Registry::ComponentQuery<Components...>(): Results starts as
\* Archetypes.size() null pointers.
ComponentQuery(iter, Sig) ==
    QueryLoop(iter, Sig, [k \in 1..Len(iter) |-> Null], 1)

\* The entries in the iteration order `order` (a permutation of positions).
Iterated(entries, order) == [k \in 1..Len(order) |-> entries[order[k]]]

NoLookup == [Sig |-> 0, Arch |-> Null]

\* The world with the outcome of the previous call dropped: only the
\* outcome of the latest call is kept.
Cleared(w) ==
    [w EXCEPT !.op = "none", !.Sig = 0, !.Results = <<>>, !.lookup = NoLookup,
              !.phase = "none", !.order = <<>>, !.a = 0, !.chunkIdx = 0,
              !.calls = <<>>]

InitWorld ==
    /\ snap = NoSnapshot
    /\ proc = NoProcess
    /\ metareg = NoMetaRegistry
    /\ ring = NoRing
    /\ rt = NoRender
    /\ mail = NoMail
    /\ bind = NoBind
    /\ proxy = NoProxy
    /\ IdleRegistry
    /\ layout = NoLayout
    /\ inv = NoInvoke
    /\ logic = NoLogic
    /\ \E S \in SUBSET WorldClassIDs :
          \E meta \in [S -> [Components : WorldPrefabs, Phases : PhaseSets]] :
             \E order \in Orders(S), keying \in Keyings :
                LET built == InitializeArchetypeEntries(keying, order, meta, <<>>, 1)
                IN  \E counts \in [DOMAIN built -> 0..MaxArchetypeEntities] :
                       world = [pc |-> "Idle", op |-> "none", meta |-> meta,
                                keying |-> keying,
                                Archetypes |-> Populate(built, counts, 1, 1),
                                Sig |-> 0, Results |-> <<>>, lookup |-> NoLookup,
                                phase |-> "none", order |-> <<>>, a |-> 0,
                                chunkIdx |-> 0, calls |-> <<>>]

\* Registry::GetOrCreateArchetype, called as Create<T> calls it: with the
\* signature MetaRegistry holds for the class c, and its ClassID.
CallGetOrCreateArchetype(c) ==
    /\ world.pc = "Idle"
    /\ c \in DOMAIN world.meta
    /\ LET Sig   == SignatureOf(world.meta[c].Components)
           key   == KeyOf(world.keying, Sig, c)
           k0    == Find(world.Archetypes, key)
           entries == IF k0 # 0 THEN world.Archetypes
                      ELSE Append(world.Archetypes,
                                  [key |-> key, Sig |-> Sig,
                                   Arch |-> Len(world.Archetypes) + 1,
                                   ResidentClassIDs |-> <<>>,
                                   data |-> BuildLayout(<<>>)])
           k     == IF k0 # 0 THEN k0 ELSE Len(entries)
       IN  world' = [Cleared(world) EXCEPT !.op = "GetOrCreateArchetype",
                                  !.Archetypes = entries,
                                  !.lookup = [Sig |-> Sig, Arch |-> entries[k].Arch]]
    /\ UNCHANGED nonWorldVars

\* Registry::ComponentQuery for the component types TypeIDs, the map being
\* iterated in the order `order`.
CallComponentQuery(TypeIDs, order) ==
    /\ world.pc = "Idle"
    /\ world' = [Cleared(world) EXCEPT
                   !.op = "ComponentQuery",
                   !.Sig = BuildSignature(TypeIDs),
                   !.Results = ComponentQuery(Iterated(world.Archetypes, order),
                                              BuildSignature(TypeIDs))]
    /\ UNCHANGED nonWorldVars

\* Mutant of DispatchClass: the class registered last for the archetype.
DispatchClass_LastResident(entry) == entry.ResidentClassIDs[Len(entry.ResidentClassIDs)]

\* EntityGetters[ID].PrePhys / .Update / .PostPhys of the class the
\* archetype is dispatched to: whether the invoker is non-null.
DispatchClass(entry) == Head(entry.ResidentClassIDs)

DefinesPhase(meta, entry, phase) ==
    /\ entry.ResidentClassIDs # <<>>
    /\ phase \in meta[DispatchClass(entry)].Phases

\* Entry of InvokePrePhys / InvokeUpdate / InvokePostPhys: the range-for
\* over Archetypes starts, iterating the map in the order `order`.
InvokeBegin(phase, order) ==
    /\ world.pc = "Idle"
    /\ world' = [Cleared(world) EXCEPT !.pc = "Scan", !.op = "Invoke",
                                       !.phase = phase, !.order = order,
                                       !.a = 1]
    /\ UNCHANGED nonWorldVars

\* Mutant of InvokeChunk: the chunk loop stops one chunk early.
InvokeChunk_SkipsLast(arch, chunkIdx) ==
    chunkIdx < Len(arch.Chunks) - 1

\* The chunk-loop condition chunkIdx < size.
InvokeChunk(arch, chunkIdx) ==
    chunkIdx < Len(arch.Chunks)

\* One step of the scan: the invoker test of the current archetype, or one
\* iteration of its chunk loop, or the return once the map is exhausted.
ScanStep ==
    /\ world.pc = "Scan"
    /\ IF world.a > Len(world.order)
       THEN world' = [world EXCEPT !.pc = "Idle", !.a = 0]
       ELSE LET entry == world.Archetypes[world.order[world.a]]
                arch  == entry.data
            IN  IF ~DefinesPhase(world.meta, entry, world.phase)
                   \/ ~InvokeChunk(arch, world.chunkIdx)
                THEN world' = [world EXCEPT !.a = @ + 1, !.chunkIdx = 0]
                ELSE LET entityCount == GetChunkCount(arch, world.chunkIdx)
                     IN  IF entityCount = 0
                         THEN world' = [world EXCEPT !.chunkIdx = @ + 1]
                         ELSE world' = [world EXCEPT
                                  !.chunkIdx = @ + 1,
                                  !.calls = Append(@,
                                      [Arch |-> entry.Arch,
                                       chunkIdx |-> world.chunkIdx,
                                       chunk |-> arch.Chunks[world.chunkIdx + 1],
                                       entityCount |-> entityCount])]
    /\ UNCHANGED nonWorldVars

NextWorld ==
    \/ \E c \in WorldClassIDs : CallGetOrCreateArchetype(c)
    \/ \E TypeIDs \in SUBSET {1, 2} :
          \E order \in Orders(DOMAIN world.Archetypes) :
             CallComponentQuery(TypeIDs, order)
    \/ \E phase \in Phases :
          \E order \in Orders(DOMAIN world.Archetypes) :
             InvokeBegin(phase, order)
    \/ ScanStep

WorldSpec == InitWorld /\ [][NextWorld]_vars

\* The scan is a plain loop on the logic thread: it keeps stepping.
WorldFairSpec == WorldSpec /\ WF_vars(ScanStep)

(***************************************************************************)
(* LogicThread::ThreadMain over the Registry. The thread is the only       *)
(* caller of the lifecycle phases; game code calls Create and Destroy      *)
(* while it runs, and the engine calls Stop. FrameNumber, SimulationTime   *)
(* and the FPS counters only feed logs and the frame packet and are left   *)
(* out. logic.calls lists the Registry calls of the current frame.         *)
(***************************************************************************)
\* ConfigPtr->GetFixedStepTime() = 1.0 / FixedUpdateHz in 1/64 s: 64 Hz,
\* 16 Hz, and a negative FixedUpdateHz.
FixedStepTimes == {1, 4, -4}

\* The measured frame times, in 1/64 s.
FrameTimes == {0, 3, 20}

Min(a, b) == IF a < b THEN a ELSE b

InitLogic ==
    /\ snap = NoSnapshot
    /\ proc = NoProcess
    /\ metareg = NoMetaRegistry
    /\ ring = NoRing
    /\ rt = NoRender
    /\ mail = NoMail
    /\ bind = NoBind
    /\ proxy = NoProxy
    /\ ClassToArchetype \in [ClassIDs -> Prefabs]
    /\ Archetypes = InitializeArchetypes(ClassToArchetype)
    /\ EntityIndex = <<>>
    /\ FreeIndices = <<>>
    /\ NextEntityIndex = 1
    /\ PendingDestructions = <<>>
    /\ heapNext = 1
    /\ ret = NoRet
    /\ Build = "release"
    /\ Live = {}
    /\ Issued = {}
    /\ freedOrder = <<>>
    /\ layout = NoLayout
    /\ inv = NoInvoke
    /\ world = NoWorld
    /\ \E fixedStepTime \in FixedStepTimes :
          logic = [pc |-> "While", bIsRunning |-> TRUE,
                   fixedStepTime |-> fixedStepTime, dt |-> 0,
                   Accumulator |-> 0, steps |-> 0, calls |-> <<>>]

\* LogicThread::Stop
Stop ==
    /\ logic.pc # "Exited"
    /\ logic.bIsRunning
    /\ logic' = [logic EXCEPT !.bIsRunning = FALSE]
    /\ UNCHANGED nonLogicVars

\* The while test failing: ThreadMain returns.
ThreadExit ==
    /\ logic.pc = "While"
    /\ ~logic.bIsRunning
    /\ logic' = [logic EXCEPT !.pc = "Exited"]
    /\ UNCHANGED nonLogicVars

\* A frame starts: dt is measured and capped, the accumulator is advanced
\* and capped.
FrameStart(measured) ==
    /\ logic.pc = "While"
    /\ logic.bIsRunning
    /\ LET dt == Min(measured, kMaxDt)
       IN  logic' = [logic EXCEPT
                       !.dt = dt,
                       !.Accumulator = Min(@ + dt, kMaxAccumulatedTime),
                       !.steps = 0,
                       !.calls = <<>>,
                       !.pc = IF logic.fixedStepTime > 0 THEN "FixedLoop"
                              ELSE "Update"]
    /\ UNCHANGED nonLogicVars

\* One substep of the fixed update loop: PrePhysics and PostPhysics.
FixedStep ==
    /\ logic.pc = "FixedLoop"
    /\ logic.Accumulator >= logic.fixedStepTime
    /\ logic.steps < kMaxPhysSubSteps
    /\ logic' = [logic EXCEPT
                   !.calls = @ \o <<"InvokePrePhys", "InvokePostPhys">>,
                   !.Accumulator = @ - logic.fixedStepTime,
                   !.steps = @ + 1]
    /\ UNCHANGED nonLogicVars

\* The fixed update loop is left; ProduceFramePacket reads
\* GetTotalEntityCount.
ProduceFramePacket ==
    /\ logic.pc = "FixedLoop"
    /\ ~(logic.Accumulator >= logic.fixedStepTime /\ logic.steps < kMaxPhysSubSteps)
    /\ logic' = [logic EXCEPT !.calls = Append(@, "GetTotalEntityCount"),
                              !.pc = "Update"]
    /\ UNCHANGED nonLogicVars

\* LogicThread::Update(dt)
Update ==
    /\ logic.pc = "Update"
    /\ logic' = [logic EXCEPT !.calls = Append(@, "InvokeUpdate"),
                              !.pc = "FrameEnd"]
    /\ UNCHANGED nonLogicVars

\* The frame limiter; the loop body ends.
FrameEnd ==
    /\ logic.pc = "FrameEnd"
    /\ logic' = [logic EXCEPT !.pc = "While"]
    /\ UNCHANGED nonLogicVars

ThreadStep ==
    \/ ThreadExit
    \/ \E measured \in FrameTimes : FrameStart(measured)
    \/ FixedStep
    \/ ProduceFramePacket
    \/ Update
    \/ FrameEnd

NextLogic ==
    \/ ThreadStep
    \/ Stop
    \/ \E c \in ClassIDs : Create(c)
    \/ \E Id \in DestroyInputs : Destroy(Id)

LogicSpec == InitLogic /\ [][NextLogic]_vars

\* The thread keeps running once started.
LogicFairSpec == LogicSpec /\ WF_vars(ThreadStep)

(***************************************************************************)
(* A FieldProxy on its own. The SIMD FieldProxy<FieldType, MASK> of        *)
(* FieldProxy.h is "Unmasked" or "Masked"; the FieldProxy<FieldType> of    *)
(* SoARef.h is "Scalar". proxy.before is the array before the last write;  *)
(* only the outcome of the latest operation is kept.                       *)
(***************************************************************************)
ProxyKinds == {"Scalar", "Unmasked", "Masked"}

\* The elements of the bound array: three SIMD batches.
ProxyArrayIndices == 0..(3 * SIMD_BATCH - 1)

\* The indices a proxy is bound at, the counts it is bound with and the
\* values written through it.
ProxyStartIndices == {0, 3, SIMD_BATCH}

ProxyStartCounts == -1..SIMD_BATCH

ProxyValues == {1, 2}

\* The proxy as the view the SIMD operators work on.
ProxyView(p) == [index |-> p.index, MASK |-> p.kind = "Masked", count |-> p.count]

\* The store of a proxy: array[index] = value for the scalar proxy,
\* Traits::store(&array[index], mask, val) for the SIMD one.
ProxyStore(p, val) ==
    IF p.kind = "Scalar" THEN [p.array EXCEPT ![p.index] = val[0]]
    ELSE Store(p.array, ProxyView(p), val)

InitProxy ==
    /\ snap = NoSnapshot
    /\ proc = NoProcess
    /\ metareg = NoMetaRegistry
    /\ ring = NoRing
    /\ rt = NoRender
    /\ mail = NoMail
    /\ bind = NoBind
    /\ IdleRegistry
    /\ layout = NoLayout
    /\ inv = NoInvoke
    /\ world = NoWorld
    /\ logic = NoLogic
    /\ \E kind \in ProxyKinds :
          proxy = [pc |-> "Unbound", kind |-> kind,
                   array |-> [k \in ProxyArrayIndices |-> 0],
                   before |-> [k \in ProxyArrayIndices |-> 0],
                   index |-> 0, count |-> -1, op |-> "none", value |-> 0,
                   result |-> 0, writes |-> 0]

\* FieldProxy::Bind(bindArray, startIndex, startCount), or the constructor
\* FieldProxy(arr, idx) of the scalar proxy (which has no count).
Bind(startIndex, startCount) ==
    /\ proxy.pc \in {"Unbound", "Bound"}
    /\ proxy.kind = "Scalar" => startCount = -1
    /\ proxy' = [proxy EXCEPT !.pc = "Bound", !.index = startIndex,
                              !.count = startCount, !.op = "Bind",
                              !.before = proxy.array, !.value = 0, !.result = 0]
    /\ UNCHANGED nonProxyVars

\* FieldProxy::Advance(SIMD_BATCH)
Advance ==
    /\ proxy.pc = "Bound"
    /\ proxy.kind # "Scalar"
    /\ proxy.index + 2 * SIMD_BATCH - 1 \in ProxyArrayIndices
    /\ proxy' = [proxy EXCEPT !.index = @ + SIMD_BATCH, !.op = "Advance",
                              !.before = proxy.array, !.value = 0, !.result = 0]
    /\ UNCHANGED nonProxyVars

\* FieldProxy::operator=(value)
Assign(value) ==
    /\ proxy.pc = "Bound"
    /\ proxy.writes < MaxProxyWrites
    /\ proxy' = [proxy EXCEPT
                   !.before = proxy.array,
                   !.array = ProxyStore(proxy, [l \in LaneIndices |-> value]),
                   !.op = "Assign", !.value = value, !.writes = @ + 1]
    /\ UNCHANGED nonProxyVars

\* FieldProxy::operator+=(value)
PlusAssign(value) ==
    /\ proxy.pc = "Bound"
    /\ proxy.writes < MaxProxyWrites
    /\ LET vec == Load(proxy.array, proxy.index)
       IN  proxy' = [proxy EXCEPT
                       !.before = proxy.array,
                       !.array = ProxyStore(proxy, [l \in LaneIndices |-> vec[l] + value]),
                       !.op = "PlusAssign", !.value = value, !.writes = @ + 1]
    /\ UNCHANGED nonProxyVars

\* FieldProxy::operator FieldType(), right after an operator=.
ReadBack ==
    /\ proxy.pc = "Bound"
    /\ proxy.op = "Assign"
    /\ proxy' = [proxy EXCEPT !.op = "ReadBack", !.result = proxy.array[proxy.index]]
    /\ UNCHANGED nonProxyVars

NextProxy ==
    \/ \E startIndex \in ProxyStartIndices, startCount \in ProxyStartCounts :
          Bind(startIndex, startCount)
    \/ Advance
    \/ \E value \in ProxyValues : Assign(value)
    \/ \E value \in ProxyValues : PlusAssign(value)
    \/ ReadBack

ProxySpec == InitProxy /\ [][NextProxy]_vars

(***************************************************************************)
(* Storage and dispatch side by side: the classes are registered with      *)
(* their schema members, InitializeArchetypes lays their archetypes out,   *)
(* and the view of a class is hydrated against the field array table of    *)
(* the archetype its entities are stored in.                               *)
(***************************************************************************)
\* The component types the schemas are made of: a plain 16-byte component
\* and the two decomposed ones.
SchemaComponents == {m \in LayoutMetas : m.Alignment > 1 /\ m.Size <= CHUNK_SIZE}

\* The schemas a class may declare: its members in declaration order.
Schemas == UNION {Orders(S) : S \in SUBSET SchemaComponents}

\* ComponentFieldRegistry::GetFieldCount
GetFieldCount(comp) == Len(comp.Fields)

\* EntityView::Hydrate with the Bind each component generates: the members
\* are walked in schema order from fieldArrayBaseIndex 0; a decomposed
\* member binds its j-th field proxy to arrays[j] of the table from the
\* base on and advances the base by its field count, any other member
\* takes the one array at the base. The result names, for every table
\* index that was bound, the component field whose proxy was bound to it.
RECURSIVE HydrateBindings(_, _, _)
HydrateBindings(members, fieldArrayBaseIndex, bound) ==
    IF members = <<>> THEN bound
    ELSE LET comp == Head(members)
         IN  IF comp.Fields # <<>>
             THEN HydrateBindings(Tail(members),
                      fieldArrayBaseIndex + GetFieldCount(comp),
                      bound @@ [k \in {fieldArrayBaseIndex + arrayIndex :
                                          arrayIndex \in 0..(Len(comp.Fields) - 1)} |->
                                   [componentID |-> comp.TypeID,
                                    fieldIndex |-> k - fieldArrayBaseIndex]])
             ELSE HydrateBindings(Tail(members), fieldArrayBaseIndex + 1,
                      bound @@ (fieldArrayBaseIndex :>
                                   [componentID |-> comp.TypeID, fieldIndex |-> 0]))

InitBind ==
    /\ snap = NoSnapshot
    /\ proc = NoProcess
    /\ metareg = NoMetaRegistry
    /\ ring = NoRing
    /\ rt = NoRender
    /\ mail = NoMail
    /\ IdleRegistry
    /\ layout = NoLayout
    /\ inv = NoInvoke
    /\ world = NoWorld
    /\ logic = NoLogic
    /\ proxy = NoProxy
    /\ \E S \in SUBSET WorldClassIDs :
          \E meta \in [S -> [Components : Schemas]] :
             \E order \in Orders(S), keying \in Keyings :
                bind = [pc |-> "Idle", meta |-> meta, keying |-> keying,
                        Archetypes |-> InitializeArchetypeEntries(keying, order, meta, <<>>, 1),
                        c |-> 0, arch |-> 0, bound |-> <<>>]

\* The invoker of class c hydrates its view against the table of the
\* archetype Create<T> stores the entities of c in.
HydrateView(c) ==
    /\ bind.pc = "Idle"
    /\ c \in DOMAIN bind.meta
    /\ LET Sig == SignatureOf(bind.meta[c].Components)
           k   == Find(bind.Archetypes, KeyOf(bind.keying, Sig, c))
       IN  /\ k # 0
           /\ bind' = [bind EXCEPT !.pc = "Hydrated", !.c = c, !.arch = k,
                                   !.bound = HydrateBindings(bind.meta[c].Components, 0, <<>>)]
    /\ UNCHANGED nonBindVars

\* The invoker returns.
HydrateReturn ==
    /\ bind.pc = "Hydrated"
    /\ bind' = [bind EXCEPT !.pc = "Idle"]
    /\ UNCHANGED nonBindVars

NextBind == (\E c \in WorldClassIDs : HydrateView(c)) \/ HydrateReturn

BindSpec == InitBind /\ [][NextBind]_vars

(***************************************************************************)
(* The FramePacket mailbox. Packets are numbered 1..3: LogicThread::        *)
(* Initialize allocates the staging packet and the mailbox packet,         *)
(* RenderThread::ThreadMain its visualPacket. FrameNumber[p] is the        *)
(* FrameNumber field of packet p. The logic thread alternates between      *)
(* filling the staging packet and publishing it; the render thread         *)
(* exchanges, compares the frame number, and builds its frame.             *)
(***************************************************************************)
FramePackets == 1..3

InitMail ==
    /\ snap = NoSnapshot
    /\ proc = NoProcess
    /\ metareg = NoMetaRegistry
    /\ ring = NoRing
    /\ rt = NoRender
    /\ IdleRegistry
    /\ layout = NoLayout
    /\ inv = NoInvoke
    /\ world = NoWorld
    /\ logic = NoLogic
    /\ proxy = NoProxy
    /\ bind = NoBind
    /\ mail = [pc |-> "Fill", render |-> "Poll",
               StagingPacket |-> 1, Mailbox |-> 2, visualPacket |-> 3,
               newPacket |-> Null, CurrentFramePacket |-> Null,
               FrameNumber |-> [p \in FramePackets |-> 0],
               LogicFrameNumber |-> 0, LastFrameNumber |-> 0]

\* LogicThread::ProduceFramePacket up to the publish: the staging packet is
\* filled, StagingPacket->FrameNumber = ++FrameNumber.
FillStagingPacket ==
    /\ mail.pc = "Fill"
    /\ mail.LogicFrameNumber < MaxFrames
    /\ mail' = [mail EXCEPT !.pc = "Publish",
                            !.LogicFrameNumber = @ + 1,
                            !.FrameNumber[mail.StagingPacket] = mail.LogicFrameNumber + 1]
    /\ UNCHANGED nonMailVars

\* LogicThread::PublishFramePacket: old = Mailbox.exchange(StagingPacket);
\* StagingPacket = old.
PublishFramePacket ==
    /\ mail.pc = "Publish"
    /\ mail' = [mail EXCEPT !.pc = "Fill",
                            !.Mailbox = mail.StagingPacket,
                            !.StagingPacket = mail.Mailbox]
    /\ UNCHANGED nonMailVars

\* newPacket = LogicPtr->ExchangeMailbox(visualPacket)
ExchangeMailbox ==
    /\ mail.render = "Poll"
    /\ mail' = [mail EXCEPT !.render = "Exchanged",
                            !.newPacket = mail.Mailbox,
                            !.Mailbox = mail.visualPacket]
    /\ UNCHANGED nonMailVars

\* if (newPacket->FrameNumber > LastFrameNumber) the new packet becomes the
\* visual and current packet; otherwise newPacket goes out of scope and
\* visualPacket stays. The frame is built when a snapshot exists.
AcceptNewPacket ==
    /\ mail.render = "Exchanged"
    /\ IF mail.FrameNumber[mail.newPacket] > mail.LastFrameNumber
       THEN mail' = [mail EXCEPT !.render = "Build",
                                 !.visualPacket = mail.newPacket,
                                 !.CurrentFramePacket = mail.newPacket,
                                 !.LastFrameNumber = mail.FrameNumber[mail.newPacket],
                                 !.newPacket = Null]
       ELSE mail' = [mail EXCEPT !.render = IF mail.CurrentFramePacket = Null
                                            THEN "Poll" ELSE "Build",
                                 !.newPacket = Null]
    /\ UNCHANGED nonMailVars

\* The rest of the render frame: BuildCopyPassAndUniforms reads
\* CurrentFramePacket->View, and the loop starts over.
BuildFrame ==
    /\ mail.render = "Build"
    /\ mail' = [mail EXCEPT !.render = "Poll"]
    /\ UNCHANGED nonMailVars

NextMail ==
    \/ FillStagingPacket
    \/ PublishFramePacket
    \/ ExchangeMailbox
    \/ AcceptNewPacket
    \/ BuildFrame

MailSpec == InitMail /\ [][NextMail]_vars

(***************************************************************************)
(* The handshake of RenderThread with the main thread. The k-th command    *)
(* buffer and the k-th swapchain texture the main thread acquires are both *)
(* named k; Null is the null pointer. frame counts the requests of the     *)
(* render thread, copyCmd / passCmd / passTex are the resources the        *)
(* current render frame built its copy pass and render pass with (0: not   *)
(* built in this frame). The main thread follows the protocol of           *)
(* RenderThread.h: it provides when NeedsGPUResources(), takes and         *)
(* submits when ReadyToSubmit(), and may Stop() at any time.               *)
(***************************************************************************)
InitRender ==
    /\ snap = NoSnapshot
    /\ proc = NoProcess
    /\ metareg = NoMetaRegistry
    /\ ring = NoRing
    /\ IdleRegistry
    /\ layout = NoLayout
    /\ inv = NoInvoke
    /\ world = NoWorld
    /\ logic = NoLogic
    /\ proxy = NoProxy
    /\ bind = NoBind
    /\ mail = NoMail
    /\ rt = [pc |-> "Loop", main |-> "Idle",
             bIsRunning |-> TRUE,
             bNeedsGPUResources |-> FALSE,
             bReadyToSubmit |-> FALSE,
             bFrameSubmitted |-> TRUE,
             CmdBufferAtomic |-> Null,
             SwapchainTextureAtomic |-> Null,
             frame |-> 0, provided |-> 0, interpolated |-> FALSE,
             copyCmd |-> 0, passCmd |-> 0, passTex |-> 0, signalled |-> FALSE]

\* while (bIsRunning): the loop condition of ThreadMain.
RenderLoop ==
    /\ rt.pc = "Loop"
    /\ rt' = [rt EXCEPT !.pc = IF rt.bIsRunning THEN "WaitSubmitted" ELSE "Exit"]
    /\ UNCHANGED nonRenderVars

\* while (!bFrameSubmitted && bIsRunning) yield; bFrameSubmitted = false.
\* The frame then has no snapshot (bFrameSubmitted = true; continue) or
\* requests the GPU resources and interpolates, with or without success.
RenderBeginFrame ==
    /\ rt.pc = "WaitSubmitted"
    /\ rt.bFrameSubmitted \/ ~rt.bIsRunning
    /\ \/ /\ rt' = [rt EXCEPT !.pc = "Loop", !.bFrameSubmitted = TRUE]
       \/ /\ rt.frame < MaxRenderFrames
          /\ \E ok \in BOOLEAN :
                rt' = [rt EXCEPT !.pc = "WaitCmd", !.bFrameSubmitted = FALSE,
                                 !.bNeedsGPUResources = TRUE,
                                 !.frame = @ + 1, !.interpolated = ok,
                                 !.copyCmd = 0, !.passCmd = 0, !.passTex = 0,
                                 !.signalled = FALSE]
    /\ UNCHANGED nonRenderVars

\* WaitForCommandBuffer returns, then BuildCopyPassAndUniforms loads
\* CmdBufferAtomic and begins the copy pass on it.
RenderCopyPass ==
    /\ rt.pc = "WaitCmd"
    /\ rt.CmdBufferAtomic # Null \/ ~rt.bIsRunning
    /\ rt' = [rt EXCEPT !.pc = "WaitTex",
                        !.copyCmd = IF rt.interpolated THEN rt.CmdBufferAtomic ELSE 0]
    /\ UNCHANGED nonRenderVars

\* WaitForSwapchainTexture returns, then BuildRenderPass loads both atomics,
\* records the render pass and stores both back.
RenderPass ==
    /\ rt.pc = "WaitTex"
    /\ rt.SwapchainTextureAtomic # Null \/ ~rt.bIsRunning
    /\ rt' = [rt EXCEPT !.pc = "Signal",
                        !.passCmd = IF rt.interpolated THEN rt.CmdBufferAtomic ELSE 0,
                        !.passTex = IF rt.interpolated THEN rt.SwapchainTextureAtomic ELSE 0]
    /\ UNCHANGED nonRenderVars

\* SignalReadyToSubmit
SignalReadyToSubmit ==
    /\ rt.pc = "Signal"
    /\ rt' = [rt EXCEPT !.pc = "Loop", !.bReadyToSubmit = TRUE, !.signalled = TRUE]
    /\ UNCHANGED nonRenderVars

\* ProvideGPUResources, first store: the main thread saw
\* NeedsGPUResources() and stores the command buffer it acquired.
ProvideCommandBuffer ==
    /\ rt.main = "Idle"
    /\ rt.bNeedsGPUResources
    /\ rt' = [rt EXCEPT !.main = "Providing", !.provided = @ + 1,
                        !.CmdBufferAtomic = rt.provided + 1]
    /\ UNCHANGED nonRenderVars

\* ProvideGPUResources, the swapchain texture and the flag.
ProvideSwapchainTexture ==
    /\ rt.main = "Providing"
    /\ rt' = [rt EXCEPT !.main = "Idle",
                        !.SwapchainTextureAtomic = rt.provided,
                        !.bNeedsGPUResources = FALSE]
    /\ UNCHANGED nonRenderVars

\* TakeCommandBuffer once ReadyToSubmit(): the command buffer is exchanged
\* for nullptr and the flag cleared; the main thread submits.
TakeCommandBuffer ==
    /\ rt.main = "Idle"
    /\ rt.bReadyToSubmit
    /\ rt' = [rt EXCEPT !.main = "Submitting",
                        !.CmdBufferAtomic = Null,
                        !.bReadyToSubmit = FALSE]
    /\ UNCHANGED nonRenderVars

\* NotifyFrameSubmitted
NotifyFrameSubmitted ==
    /\ rt.main = "Submitting"
    /\ rt' = [rt EXCEPT !.main = "Idle", !.bFrameSubmitted = TRUE]
    /\ UNCHANGED nonRenderVars

\* RenderThread::Stop
StopRender ==
    /\ rt.pc # "None"
    /\ rt.bIsRunning
    /\ rt' = [rt EXCEPT !.bIsRunning = FALSE]
    /\ UNCHANGED nonRenderVars

NextRender ==
    \/ RenderLoop
    \/ RenderBeginFrame
    \/ RenderCopyPass
    \/ RenderPass
    \/ SignalReadyToSubmit
    \/ ProvideCommandBuffer
    \/ ProvideSwapchainTexture
    \/ TakeCommandBuffer
    \/ NotifyFrameSubmitted
    \/ StopRender

RenderSpec == InitRender /\ [][NextRender]_vars

(***************************************************************************)
(* RenderCommandBuffer. The buffer is counted in cells of                  *)
(* sizeof(RenderCommand) = 16 bytes: a FrameStart or FrameEnd command is   *)
(* one cell, a DrawInstanced command one cell and InstanceCells cells per  *)
(* instance; RingCells stands for MAX_BUFFER_BYTES. A cell is [id, Type,   *)
(* Finished, Count]: what a RenderCommand header read from it shows, id    *)
(* being the number of the command whose header was written there (0 for   *)
(* a cell that holds no header: zeroed memory or instance data). committed *)
(* lists the commands in the order CommitCommand published them, returned  *)
(* the commands GetCommand returned.                                       *)
(***************************************************************************)
InstanceCells == 4

CommandTypes == {"FrameStart", "DrawInstanced", "FrameEnd", "Wrap"}

\* std::memset(buffer, 0, MAX_BUFFER_BYTES): type 0 is FrameStart.
ZeroCell == [id |-> 0, Type |-> "FrameStart", Finished |-> FALSE, Count |-> 0]

\* What the first word of a cell of instance data can show when it is read
\* as a command header.
DataCells ==
    { [id |-> 0, Type |-> "FrameStart", Finished |-> FALSE, Count |-> 0],
      [id |-> 0, Type |-> "FrameEnd", Finished |-> TRUE, Count |-> 0],
      [id |-> 0, Type |-> "Wrap", Finished |-> TRUE, Count |-> 0] }

\* sizeof(DrawInstancedCommand) + sizeof(InstanceData) * count, in cells
DrawCommandCells(count) == 1 + InstanceCells * count

InitRing ==
    /\ snap = NoSnapshot
    /\ proc = NoProcess
    /\ metareg = NoMetaRegistry
    /\ IdleRegistry
    /\ layout = NoLayout
    /\ inv = NoInvoke
    /\ world = NoWorld
    /\ logic = NoLogic
    /\ proxy = NoProxy
    /\ bind = NoBind
    /\ mail = NoMail
    /\ rt = NoRender
    /\ ring = [pc |-> "Wait", buffer |-> [c \in 0..(RingCells - 1) |-> ZeroCell],
               tail |-> 0, head |-> 0, lastFrameHead |-> 0,
               frames |-> 0, instanceIdx |-> 0, current |-> 0, nextId |-> 1,
               committed |-> <<>>, returned |-> <<>>]

\* RenderFrame waits until the previous frame has been consumed (the wait
\* of StrigidEngine.cpp 224-230 as its comment states it: IsInRange compares
\* frame numbers that RenderCommand does not carry), then
\* AllocateCommand(FrameStart): head wraps when a header does not fit,
\* lastFrameHead is set, and the Finished flag at head is cleared.
\* instanceIdx is the number of instances the frame will draw.
AllocateFrameStart ==
    /\ ring.pc = "Wait"
    /\ ring.tail = ring.head
    /\ ring.frames < MaxRingFrames
    /\ \E n \in 0..MaxInstances :
          LET currentHead == IF ring.head + 1 > RingCells THEN 0 ELSE ring.head
          IN  ring' = [ring EXCEPT !.pc = "FrameStart", !.frames = @ + 1,
                                   !.instanceIdx = n,
                                   !.head = currentHead,
                                   !.lastFrameHead = currentHead,
                                   !.current = currentHead,
                                   !.buffer[currentHead].Finished = FALSE]
    /\ UNCHANGED nonRingVars

\* AllocateCommand for DrawInstanced or FrameEnd: the Finished flag of the
\* cell at head is cleared.
AllocateCommand ==
    /\ ring.pc \in {"AllocDraw", "AllocFrameEnd"}
    /\ ring' = [ring EXCEPT !.pc = IF ring.pc = "AllocDraw" THEN "Draw" ELSE "FrameEnd",
                            !.current = ring.head,
                            !.buffer[ring.head].Finished = FALSE]
    /\ UNCHANGED nonRingVars

\* SetTypeAndCount(type, 0, true) of a FrameStart or FrameEnd command.
WriteHeader ==
    /\ ring.pc \in {"FrameStart", "FrameEnd"}
    /\ ring' = [ring EXCEPT !.pc = IF ring.pc = "FrameStart" THEN "CommitFrameStart"
                                                             ELSE "CommitFrameEnd",
                            !.nextId = @ + 1,
                            !.buffer[ring.current] =
                                [id |-> ring.nextId, Type |-> ring.pc,
                                 Finished |-> TRUE, Count |-> 0]]
    /\ UNCHANGED nonRingVars

\* The cells the two memcpy of RenderFrame fill with instance data inside
\* the buffer: from the cell after the header to the end of the buffer,
\* and, when the command wraps, commandSize - wrapafter cells from the
\* start of the buffer.
DrawDataCells(current, count) ==
    LET commandSize == DrawCommandCells(count)
    IN  IF current + commandSize > RingCells
        THEN {c \in 0..(RingCells - 1) :
                 c > current \/ c < commandSize - (RingCells - current)}
        ELSE (current + 1)..(current + commandSize - 1)

\* drawCmd->SetTypeAndCount(DrawInstanced, instanceIdx) and the copy of
\* the instance data.
WriteDrawInstanced ==
    /\ ring.pc = "Draw"
    /\ \E data \in DataCells :
          ring' = [ring EXCEPT
                     !.pc = "CommitDraw", !.nextId = @ + 1,
                     !.buffer = [c \in 0..(RingCells - 1) |->
                                   IF c \in DrawDataCells(ring.current, ring.instanceIdx)
                                   THEN data
                                   ELSE IF c = ring.current
                                   THEN [id |-> ring.nextId, Type |-> "DrawInstanced",
                                         Finished |-> FALSE, Count |-> ring.instanceIdx]
                                   ELSE ring.buffer[c]]]
    /\ UNCHANGED nonRingVars

\* CommitCommand(dataSize): head = (head + dataSize) % MAX_BUFFER_BYTES.
CommitCommand ==
    /\ ring.pc \in {"CommitFrameStart", "CommitDraw", "CommitFrameEnd"}
    /\ LET dataSize == IF ring.pc = "CommitDraw"
                       THEN DrawCommandCells(ring.instanceIdx) ELSE 1
       IN  ring' = [ring EXCEPT
                      !.pc = CASE ring.pc = "CommitFrameStart" ->
                                     IF ring.instanceIdx > 0 THEN "AllocDraw"
                                                             ELSE "AllocFrameEnd"
                               [] ring.pc = "CommitDraw" -> "FinishDraw"
                               [] OTHER -> "Wait",
                      !.head = (ring.head + dataSize) % RingCells,
                      !.committed = Append(@, ring.nextId - 1)]
    /\ UNCHANGED nonRingVars

\* drawCmd->SetCommandFinished()
SetCommandFinished ==
    /\ ring.pc = "FinishDraw"
    /\ ring' = [ring EXCEPT !.pc = "AllocFrameEnd",
                            !.buffer[ring.current].Finished = TRUE]
    /\ UNCHANGED nonRingVars

\* RenderCommandBuffer::GetCommand, when it returns a command (a call that
\* returns nullptr changes nothing). MaxReturned caps the record of the
\* returned commands.
GetCommand ==
    /\ ring.pc # "None"
    /\ Len(ring.returned) < MaxReturned
    /\ ring.tail # ring.head
    /\ LET currentTail == IF ring.tail + 1 > RingCells THEN 0 ELSE ring.tail
           cmdHeader   == ring.buffer[currentTail]
           cmdSize     == IF cmdHeader.Type = "DrawInstanced"
                          THEN DrawCommandCells(cmdHeader.Count) ELSE 1
       IN  /\ cmdHeader.Finished
           /\ cmdHeader.Type \in {"FrameStart", "DrawInstanced", "FrameEnd"}
           /\ ring' = [ring EXCEPT
                         !.tail = IF cmdHeader.Type = "DrawInstanced"
                                  THEN (currentTail + cmdSize) % RingCells
                                  ELSE currentTail + 1,
                         !.returned = Append(@, cmdHeader.id)]
    /\ UNCHANGED nonRingVars

NextRing ==
    \/ AllocateFrameStart
    \/ AllocateCommand
    \/ WriteHeader
    \/ WriteDrawInstanced
    \/ CommitCommand
    \/ SetCommandFinished
    \/ GetCommand

RingSpec == InitRing /\ [][NextRing]_vars

(***************************************************************************)
(* MetaRegistry::RegisterPrefabComponent and Registry::BuildSignature on   *)
(* their own. A signature is the set of the bits set in the 256-bit        *)
(* bitset.                                                                 *)
(***************************************************************************)
\* How a shift of an int by 32 or more, undefined in C++, comes out: the
\* count taken modulo 32 (x86 shl) or every bit shifted out (ARM lsl).
ShiftBuilds == {"count_mod_32", "zero"}

\* std::bitset<256>(unsigned long long(int(1) << n)): the bits of the
\* bitset built from the int 1 << n. 1 << 31 is INT_MIN, which converts to
\* unsigned long long with bits 31..63 set.
ShiftedOne(n, shiftBuild) ==
    LET count == IF n < 32 THEN n ELSE n % 32
    IN  IF n >= 32 /\ shiftBuild = "zero" THEN {}
        ELSE IF count = 31 THEN 31..63
        ELSE {count}

\* Def |= 1 << (TypeID - 1)
RegisterPrefabComponentBits(Def, TypeID, shiftBuild) ==
    Def \cup ShiftedOne(TypeID - 1, shiftBuild)

\* Registry::BuildSignature: Sig.Set(GetComponentTypeID<C>() - 1) for each.
BuildSignatureBits(TypeIDs) == {t - 1 : t \in TypeIDs}

SignatureClassIDs == {1, 2}

InitMetaRegistry ==
    /\ snap = NoSnapshot
    /\ proc = NoProcess
    /\ IdleRegistry
    /\ layout = NoLayout
    /\ inv = NoInvoke
    /\ world = NoWorld
    /\ logic = NoLogic
    /\ proxy = NoProxy
    /\ bind = NoBind
    /\ mail = NoMail
    /\ rt = NoRender
    /\ ring = NoRing
    /\ \E b \in ShiftBuilds :
          metareg = [pc |-> "Registering", shiftBuild |-> b,
                     ClassToArchetype |-> [c \in SignatureClassIDs |-> {}],
                     ClassToComponentList |-> [c \in SignatureClassIDs |-> <<>>],
                     before |-> {}, TypeID |-> 0, ID |-> 0, registering |-> 1]

\* MetaRegistry::RegisterPrefabComponent<C, T>() for a component type a
\* class declares once.
RegisterPrefabComponent(ID, TypeID) ==
    /\ metareg.pc = "Registering"
    /\ ID = metareg.registering
    /\ Len(metareg.ClassToComponentList[ID]) < MaxDeclared
    /\ \A k \in DOMAIN metareg.ClassToComponentList[ID] :
          metareg.ClassToComponentList[ID][k] # TypeID
    /\ metareg' = [metareg EXCEPT
          !.ClassToArchetype[ID] =
              RegisterPrefabComponentBits(@, TypeID, metareg.shiftBuild),
          !.ClassToComponentList[ID] = Append(@, TypeID),
          !.before = metareg.ClassToArchetype[ID],
          !.TypeID = TypeID, !.ID = ID]
    /\ UNCHANGED nonMetaRegistryVars

\* PrefabReflector<T>::Register returns: the registration of the next
\* class (a later static initialiser) starts.
RegisterReturn ==
    /\ metareg.pc = "Registering"
    /\ metareg.registering + 1 \in SignatureClassIDs
    /\ metareg' = [metareg EXCEPT !.registering = @ + 1]
    /\ UNCHANGED nonMetaRegistryVars

NextMetaRegistry ==
    \/ \E ID \in SignatureClassIDs, TypeID \in 1..SigTypeIDLimit :
          RegisterPrefabComponent(ID, TypeID)
    \/ RegisterReturn

MetaRegistrySpec == InitMetaRegistry /\ [][NextMetaRegistry]_vars

(***************************************************************************)
(* The Registry objects of one process and the function-local statics of   *)
(* Registry::Create<T>. TestEntity and CubeEntity have different           *)
(* signatures, so each Registry keeps one archetype per class. Archetype   *)
(* objects are numbered in the order of their `new`; 0 is nullptr.         *)
(* owner[a] is the Registry whose map holds archetype a, deleted the set   *)
(* of archetype objects already passed to `delete`.                        *)
(***************************************************************************)
RegistryIds == {"RegA", "RegB"}

ProcessClasses == {"TestEntity", "CubeEntity"}

\* ResetRegistry either clears the storage of the archetypes in place or
\* deletes them as the destructor does.
ResetBuilds == {"clears_in_place", "deletes_archetypes"}

InitProcess ==
    /\ snap = NoSnapshot
    /\ IdleRegistry
    /\ layout = NoLayout
    /\ inv = NoInvoke
    /\ world = NoWorld
    /\ logic = NoLogic
    /\ proxy = NoProxy
    /\ bind = NoBind
    /\ mail = NoMail
    /\ rt = NoRender
    /\ ring = NoRing
    /\ metareg = NoMetaRegistry
    /\ proc \in {[pc |-> "Running", resetBuild |-> b, alive |-> {},
                  Archetypes |-> [r \in RegistryIds |-> [T \in ProcessClasses |-> 0]],
                  owner |-> <<>>, deleted |-> {},
                  CachedArchetype |-> [T \in ProcessClasses |-> 0],
                  Initialized |-> [T \in ProcessClasses |-> FALSE],
                  pushed |-> [reg |-> "none", T |-> "none", arch |-> 0, dangling |-> FALSE],
                  constructed |-> 0, creates |-> 0, resets |-> 0] : b \in ResetBuilds}

\* new Archetype for every class in `classes` that has none in `map`; the
\* result is <<map, owner>>.
RECURSIVE NewArchetypes(_, _, _, _)
NewArchetypes(r, classes, map, owner) ==
    IF classes = {} THEN <<map, owner>>
    ELSE LET T == CHOOSE c \in classes : TRUE
             fresh == Len(owner) + 1
         IN  IF map[T] # 0 THEN NewArchetypes(r, classes \ {T}, map, owner)
             ELSE NewArchetypes(r, classes \ {T}, [map EXCEPT ![T] = fresh],
                                Append(owner, r))

\* Registry::Registry(): InitializeArchetypes
RegistryConstructor(r) ==
    /\ proc.pc = "Running"
    /\ r \notin proc.alive
    /\ proc.constructed < MaxConstructed
    /\ LET made == NewArchetypes(r, ProcessClasses,
                                 [T \in ProcessClasses |-> 0], proc.owner)
       IN  proc' = [proc EXCEPT !.alive = @ \cup {r},
                                !.Archetypes[r] = made[1],
                                !.owner = made[2],
                                !.constructed = @ + 1]
    /\ UNCHANGED nonProcessVars

\* Registry::~Registry(): delete Pair.second for every archetype; clear
RegistryDestructor(r) ==
    /\ proc.pc = "Running"
    /\ r \in proc.alive
    /\ proc' = [proc EXCEPT
                  !.alive = @ \ {r},
                  !.deleted = @ \cup ({proc.Archetypes[r][T] : T \in ProcessClasses} \ {0}),
                  !.Archetypes[r] = [T \in ProcessClasses |-> 0]]
    /\ UNCHANGED nonProcessVars

\* Registry::ResetRegistry()
ResetRegistry(r) ==
    /\ proc.pc = "Running"
    /\ r \in proc.alive
    /\ proc.resets < MaxResets
    /\ proc' = IF proc.resetBuild = "clears_in_place"
               THEN [proc EXCEPT !.resets = @ + 1]
               ELSE [proc EXCEPT
                       !.resets = @ + 1,
                       !.deleted = @ \cup ({proc.Archetypes[r][T] : T \in ProcessClasses} \ {0}),
                       !.Archetypes[r] = [T \in ProcessClasses |-> 0]]
    /\ UNCHANGED nonProcessVars

\* Registry::Create<T>() called on Registry r: the statics CachedArchetype
\* and Initialized belong to the instantiation Create<T>, not to r.
CreateOn(r, T) ==
    /\ proc.pc = "Running"
    /\ r \in proc.alive
    /\ proc.creates < MaxProcessCreates
    /\ LET made == IF proc.Initialized[T] THEN <<proc.Archetypes[r], proc.owner>>
                   ELSE NewArchetypes(r, {T}, proc.Archetypes[r], proc.owner)
           cached == IF proc.Initialized[T] THEN proc.CachedArchetype[T]
                     ELSE made[1][T]
       IN  proc' = [proc EXCEPT
                      !.Archetypes[r] = made[1],
                      !.owner = made[2],
                      !.CachedArchetype[T] = cached,
                      !.Initialized[T] = TRUE,
                      !.pushed = [reg |-> r, T |-> T, arch |-> cached,
                                  dangling |-> cached \in proc.deleted],
                      !.creates = @ + 1]
    /\ UNCHANGED nonProcessVars

NextProcess ==
    \/ \E r \in RegistryIds : RegistryConstructor(r)
    \/ \E r \in RegistryIds : RegistryDestructor(r)
    \/ \E r \in RegistryIds : ResetRegistry(r)
    \/ \E r \in RegistryIds, T \in ProcessClasses : CreateOn(r, T)

ProcessSpec == InitProcess /\ [][NextProcess]_vars

(***************************************************************************)
(* RenderThread::SnapshotSparseArrays beside a logic thread that creates   *)
(* entities. arch is the archetype Query<Transform, ColorData> returns     *)
(* (CubeEntity), other the TotalEntityCount of an archetype the query does *)
(* not match (TestEntity: Transform, Velocity). Mailbox is the frame       *)
(* packet the logic thread published last; size is SnapshotCurrent.size(). *)
(* The render thread reads Chunks.size() and GetChunkCount once per chunk, *)
(* as the loop does, from the archetype the logic thread is pushing into.  *)
(***************************************************************************)
InitSnapshot ==
    /\ IdleRegistry
    /\ layout = NoLayout
    /\ inv = NoInvoke
    /\ world = NoWorld
    /\ logic = NoLogic
    /\ proxy = NoProxy
    /\ bind = NoBind
    /\ mail = NoMail
    /\ rt = NoRender
    /\ ring = NoRing
    /\ metareg = NoMetaRegistry
    /\ proc = NoProcess
    /\ snap = [pc |-> "Poll",
               arch |-> [NewArchetype EXCEPT !.EntitiesPerChunk = SnapshotEntitiesPerChunk],
               other |-> 0,
               FrameNumber |-> 0,
               Mailbox |-> [ActiveEntityCount |-> 0, FrameNumber |-> 0],
               LastFrameNumber |-> 0,
               entityCount |-> 0, size |-> 0, writeIdx |-> 0, chunkIdx |-> 0]

\* Logic thread: Registry::Create<T>() for a class the query matches
\* (PushEntity on arch) or for one it does not.
SnapshotCreate(queried) ==
    /\ snap.pc # "None"
    /\ snap.arch.TotalEntityCount + snap.other < MaxSnapshotCreates
    /\ snap' = IF queried
               THEN [snap EXCEPT !.arch = PushEntity(@, Len(@.Chunks) + 1).arch]
               ELSE [snap EXCEPT !.other = @ + 1]
    /\ UNCHANGED nonSnapshotVars

\* Logic thread: ProduceFramePacket and PublishFramePacket;
\* ActiveEntityCount = GetTotalEntityCount(), the sum over all archetypes.
SnapshotProduceFramePacket ==
    /\ snap.pc # "None"
    /\ snap.FrameNumber < MaxSnapshotFrames
    /\ snap' = [snap EXCEPT
                  !.FrameNumber = @ + 1,
                  !.Mailbox = [ActiveEntityCount |-> snap.arch.TotalEntityCount + snap.other,
                               FrameNumber |-> snap.FrameNumber + 1]]
    /\ UNCHANGED nonSnapshotVars

\* Render thread: a packet with a newer FrameNumber arrived;
\* entityCount = packet->ActiveEntityCount; SnapshotCurrent.resize(entityCount)
SnapshotBegin ==
    /\ snap.pc = "Poll"
    /\ snap.Mailbox.FrameNumber > snap.LastFrameNumber
    /\ snap' = [snap EXCEPT
                  !.pc = "Chunks",
                  !.LastFrameNumber = snap.Mailbox.FrameNumber,
                  !.entityCount = snap.Mailbox.ActiveEntityCount,
                  !.size = snap.Mailbox.ActiveEntityCount,
                  !.writeIdx = 0,
                  !.chunkIdx = 0]
    /\ UNCHANGED nonSnapshotVars

\* Render thread: one pass of the chunk loop; every entity of the chunk is
\* written to SnapshotCurrent[writeIdx++].
SnapshotChunk ==
    /\ snap.pc = "Chunks"
    /\ snap.chunkIdx < Len(snap.arch.Chunks)
    /\ snap' = [snap EXCEPT
                  !.writeIdx = @ + GetChunkCount(snap.arch, snap.chunkIdx),
                  !.chunkIdx = @ + 1]
    /\ UNCHANGED nonSnapshotVars

\* Render thread: chunkIdx reached arch->Chunks.size(); the function returns.
SnapshotReturn ==
    /\ snap.pc = "Chunks"
    /\ ~(snap.chunkIdx < Len(snap.arch.Chunks))
    /\ snap' = [snap EXCEPT !.pc = "Poll"]
    /\ UNCHANGED nonSnapshotVars

NextSnapshot ==
    \/ \E queried \in BOOLEAN : SnapshotCreate(queried)
    \/ SnapshotProduceFramePacket
    \/ SnapshotBegin
    \/ SnapshotChunk
    \/ SnapshotReturn

SnapshotSpec == InitSnapshot /\ [][NextSnapshot]_vars

(***************************************************************************)
(* Helpers of the properties.                                              *)
(***************************************************************************)
\* The handle is stale for the table: the 0 handle, an index outside the
\* table, or a generation other than the record's.
StaleHandle(Id) ==
    \/ ~IsValid(Id)
    \/ Id.Index >= EntityIndexSize
    \/ EntityIndex[Id.Index].Generation # Id.Generation

\* A pending id that ProcessDeferredDestructions must destroy: non-zero,
\* index in range, generation equal to the record's, record valid.
LiveNow(Id) ==
    /\ IsValid(Id)
    /\ Id.Index < EntityIndexSize
    /\ EntityIndex[Id.Index].Generation = Id.Generation
    /\ RecordIsValid(EntityIndex[Id.Index])

\* The sequence without its repeated elements, first occurrences kept.
RECURSIVE FirstOccurrences(_)
FirstOccurrences(seq) ==
    IF seq = <<>> THEN <<>>
    ELSE LET front == FirstOccurrences(SubSeq(seq, 1, Len(seq) - 1))
             last  == seq[Len(seq)]
         IN  IF \E k \in DOMAIN front : front[k] = last THEN front
             ELSE Append(front, last)

\* The indices of the pending ids that are live now, in pending order.
RECURSIVE LiveIndices(_)
LiveIndices(pending) ==
    IF pending = <<>> THEN <<>>
    ELSE IF LiveNow(Head(pending))
         THEN <<Head(pending).Index>> \o LiveIndices(Tail(pending))
         ELSE LiveIndices(Tail(pending))

RECURSIVE SumChunkCounts(_, _)
SumChunkCounts(arch, n) ==
    IF n = 0 THEN 0
    ELSE GetChunkCount(arch, n - 1) + SumChunkCounts(arch, n - 1)

AllChunks == UNION {{Archetypes[sig].Chunks[k] : k \in DOMAIN Archetypes[sig].Chunks} :
                        sig \in DOMAIN Archetypes}

(***************************************************************************)
(* C1 (Uniqueness): any two distinct live entities have different          *)
(* (Index, Generation) pairs. Violated by the code: the 20-bit Index       *)
(* bit-field truncates NextEntityIndex, so indices repeat with             *)
(* generation 1 while their first holders are alive.                       *)
(***************************************************************************)
C1_LiveIdsDistinct ==
    \A e1 \in Live, e2 \in Live :
        e1 # e2 => <<e1.Id.Index, e1.Id.Generation>> # <<e2.Id.Index, e2.Id.Generation>>

(***************************************************************************)
(* C2 (Stale rejection): for a handle that is 0, whose index is outside    *)
(* the table or whose generation differs from the record's, GetComponent   *)
(* returns null without dereferencing the record's archetype or chunk, and *)
(* HasComponent returns false.                                             *)
(***************************************************************************)
C2_StaleRejected ==
    \A Id \in HandleInputs, TypeID \in ComponentTypeIDs :
        StaleHandle(Id) =>
            /\ ~GetComponent(Id, TypeID, EntityIndex, Archetypes).found
            /\ ~GetComponent(Id, TypeID, EntityIndex, Archetypes).deref
            /\ ~HasComponent(Id, TypeID, EntityIndex, Archetypes)

\* A handle Create returned is stale while its index is held by a live
\* entity of another generation whose component the lookup would reach.
C2_Witness ==
    \E Id \in Issued, TypeID \in ComponentTypeIDs :
        /\ Id.Index < EntityIndexSize
        /\ EntityIndex[Id.Index].Generation # Id.Generation
        /\ RecordIsValid(EntityIndex[Id.Index])
        /\ TypeID \in Archetypes[EntityIndex[Id.Index].Arch].ComponentLayout
        /\ ~GetComponent(Id, TypeID, EntityIndex, Archetypes).found

(***************************************************************************)
(* C3 (Recycle monotonicity), as stated: the Create that reuses the index  *)
(* of a destroyed-and-processed id returns a Generation strictly greater   *)
(* than that id's. Violated when the generation wraps.                     *)
(***************************************************************************)
C3_StrictlyGreater ==
    [][(ret'.op = "Create" /\ ret'.fromFree) =>
          /\ ret'.Id.Index = Head(freedOrder).Index
          /\ ret'.Id.Generation > Head(freedOrder).Generation]_vars

(***************************************************************************)
(* C3, amended: the Create that reuses the index of a destroyed-and-       *)
(* processed id returns that id's Generation + 1, or 1 when that was the   *)
(* largest generation (the wrap skips 0); so it differs from the old       *)
(* generation and is never 0.                                              *)
(***************************************************************************)
C3_SuccessorGeneration ==
    [][(ret'.op = "Create" /\ ret'.fromFree) =>
          LET old == Head(freedOrder)
          IN  /\ ret'.Id.Index = old.Index
              /\ ret'.Id.Generation =
                    (IF old.Generation = GenLimit - 1 THEN 1 ELSE old.Generation + 1)
              /\ ret'.Id.Generation # old.Generation
              /\ ret'.Id.Generation # 0]_vars

\* A Create reused an index and its generation wrapped to 1.
C3_Witness ==
    /\ ret.op = "Create"
    /\ ret.fromFree
    /\ ret.Id.Generation = 1
    /\ MakeID(ret.Id.Index, GenLimit - 1, ret.Id.TypeID) \in Issued

(***************************************************************************)
(* C4: whenever the free list is non-empty, Create takes its index from    *)
(* the free list, in the order the indices were freed, and leaves the      *)
(* monotonic counter alone; after exactly one entity has been destroyed    *)
(* and processed the next Create returns that entity's Index.              *)
(***************************************************************************)
C4_FreeListFirst ==
    [][(ret'.op = "Create" /\ FreeIndices # <<>>) =>
          /\ ret'.fromFree
          /\ freedOrder # <<>>
          /\ ret'.Id.Index = Head(freedOrder).Index
          /\ ret'.Id.Index = Head(FreeIndices)
          /\ FreeIndices' = Tail(FreeIndices)
          /\ NextEntityIndex' = NextEntityIndex]_vars

\* A Create took the index freed first while a second freed index
\* stayed in the queue.
C4_Witness ==
    /\ ret.op = "Create"
    /\ ret.fromFree
    /\ Len(FreeIndices) = 1
    /\ FreeIndices[1] # ret.Id.Index

(***************************************************************************)
(* C5: while no index has been recycled, the k-th Create returns Index k   *)
(* and Generation 1, and index 0 is never handed out. Violated by the      *)
(* code: the 2^20-th Create returns Index 0.                               *)
(***************************************************************************)
C5_KthCreateIsIndexK ==
    (ret.op = "Create" /\ NextEntityIndex = GetTotalEntityCount + 1) =>
        /\ ret.Id.Index = GetTotalEntityCount
        /\ ret.Id.Generation = 1
        /\ ret.Id.Index # 0

(***************************************************************************)
(* C6: every EntityID Create returns is valid (Value # 0) and has          *)
(* Generation # 0, also when the generation of a recycled index wraps.     *)
(***************************************************************************)
C6_CreatedIdValid ==
    ret.op = "Create" => (IsValid(ret.Id) /\ ret.Id.Generation # 0)

\* A Create whose recycled generation wrapped.
C6_Witness ==
    /\ ret.op = "Create"
    /\ ret.fromFree
    /\ ret.Id.Generation = 1
    /\ IsValid(ret.Id)

(***************************************************************************)
(* C7: Destroy(id) only appends id to PendingDestructions; EntityIndex,    *)
(* the free list, the counter and every archetype are unchanged and        *)
(* GetComponent(id) returns what it returned before.                       *)
(***************************************************************************)
C7_DestroyOnlyAppends ==
    [][ret'.op = "Destroy" =>
          /\ PendingDestructions' = Append(PendingDestructions, ret'.Id)
          /\ EntityIndex' = EntityIndex
          /\ FreeIndices' = FreeIndices
          /\ NextEntityIndex' = NextEntityIndex
          /\ Archetypes' = Archetypes
          /\ \A TypeID \in ComponentTypeIDs :
                GetComponent(ret'.Id, TypeID, EntityIndex', Archetypes')
                    = GetComponent(ret'.Id, TypeID, EntityIndex, Archetypes)]_vars

\* Destroy was called on a live entity and its component is still returned,
\* at the slot the entity was given.
C7_Witness ==
    /\ ret.op = "Destroy"
    /\ \E e \in Live, TypeID \in ComponentTypeIDs :
          /\ e.Id = ret.Id
          /\ ret.Id = PendingDestructions[Len(PendingDestructions)]
          /\ GetComponent(ret.Id, TypeID, EntityIndex, Archetypes).found
          /\ GetComponent(ret.Id, TypeID, EntityIndex, Archetypes).chunk = e.TargetChunk
          /\ GetComponent(ret.Id, TypeID, EntityIndex, Archetypes).index = e.LocalIndex

(***************************************************************************)
(* C8: ProcessDeferredDestructions invalidates the record of, and appends  *)
(* to the free list the index of, exactly the pending ids that are live at *)
(* that moment, each index once and in pending order; it leaves every      *)
(* other record untouched and PendingDestructions empty.                   *)
(***************************************************************************)
C8_ProcessFreesExactlyLive ==
    [][ret'.op = "Process" =>
          LET freedIdx == FirstOccurrences(LiveIndices(PendingDestructions))
              freedSet == {freedIdx[k] : k \in DOMAIN freedIdx}
          IN  /\ PendingDestructions' = <<>>
              /\ FreeIndices' = FreeIndices \o freedIdx
              /\ DOMAIN EntityIndex' = DOMAIN EntityIndex
              /\ \A i \in DOMAIN EntityIndex :
                    IF i \in freedSet
                    THEN /\ ~RecordIsValid(EntityIndex'[i])
                         /\ EntityIndex'[i].Generation = EntityIndex[i].Generation
                    ELSE EntityIndex'[i] = EntityIndex[i]]_vars

\* The same live id was pending twice, next to another id that was not
\* live: its index is in the free list once.
C8_Witness ==
    /\ ret.op = "Process"
    /\ Len(ret.pending) = 2
    /\ ret.pending[1] = ret.pending[2]
    /\ freedOrder # <<>>
    /\ freedOrder[Len(freedOrder)] = ret.pending[1]
    /\ Cardinality({k \in DOMAIN FreeIndices : FreeIndices[k] = ret.pending[1].Index}) = 1
    /\ ~RecordIsValid(EntityIndex[ret.pending[1].Index])

(***************************************************************************)
(* C9 (Dense packing): for every archetype the chunk counts sum to         *)
(* TotalEntityCount, every chunk but the last reports EntitiesPerChunk,    *)
(* and the last reports TotalEntityCount mod EntitiesPerChunk, or          *)
(* EntitiesPerChunk when that is 0 and the archetype is not empty.         *)
(***************************************************************************)
C9_DensePacking ==
    \A sig \in DOMAIN Archetypes :
        LET arch == Archetypes[sig]
            n    == Len(arch.Chunks)
        IN  /\ SumChunkCounts(arch, n) = arch.TotalEntityCount
            /\ \A i \in 0..(n - 2) : GetChunkCount(arch, i) = arch.EntitiesPerChunk
            /\ n > 0 =>
                 GetChunkCount(arch, n - 1) =
                    (IF arch.TotalEntityCount % arch.EntitiesPerChunk = 0
                        /\ arch.TotalEntityCount > 0
                     THEN arch.EntitiesPerChunk
                     ELSE arch.TotalEntityCount % arch.EntitiesPerChunk)
            /\ n = 0 => arch.TotalEntityCount = 0

\* An archetype with two full chunks, and one with a full chunk and a
\* partly filled last chunk, are both reached.
C9_Witness ==
    \E sig \in DOMAIN Archetypes :
        LET arch == Archetypes[sig]
        IN  /\ Len(arch.Chunks) = 2
            /\ arch.EntitiesPerChunk = 2
            /\ arch.TotalEntityCount = 4
            /\ GetChunkCount(arch, 1) = 2

(***************************************************************************)
(* C10: PushEntity appends a newly allocated chunk exactly when the        *)
(* archetype has no chunks or its last chunk is full; it returns           *)
(* GlobalIndex = TotalEntityCount before the call, TargetChunk =           *)
(* Chunks[GlobalIndex div EntitiesPerChunk], LocalIndex = GlobalIndex mod  *)
(* EntitiesPerChunk; TotalEntityCount grows by 1 per call and nothing else *)
(* changes it.                                                             *)
(***************************************************************************)
C10_PushEntity ==
    [][\A sig \in DOMAIN Archetypes :
          LET old == Archetypes[sig]
              new == Archetypes'[sig]
              n   == Len(old.Chunks)
              lastFull == n > 0 /\ GetChunkCount(old, n - 1) = old.EntitiesPerChunk
          IN  IF ret'.op = "Create" /\ ret'.sig = sig
              THEN /\ new.TotalEntityCount = old.TotalEntityCount + 1
                   /\ ret'.Slot.GlobalIndex = old.TotalEntityCount
                   /\ ret'.Slot.TargetChunk =
                         new.Chunks[(ret'.Slot.GlobalIndex \div new.EntitiesPerChunk) + 1]
                   /\ ret'.Slot.LocalIndex = ret'.Slot.GlobalIndex % new.EntitiesPerChunk
                   /\ SubSeq(new.Chunks, 1, n) = old.Chunks
                   /\ IF n = 0 \/ lastFull
                      THEN /\ Len(new.Chunks) = n + 1
                           /\ new.Chunks[n + 1] \notin AllChunks
                           /\ ret'.allocated
                      ELSE /\ new.Chunks = old.Chunks
                           /\ ~ret'.allocated
              ELSE /\ new.TotalEntityCount = old.TotalEntityCount
                   /\ new.Chunks = old.Chunks]_vars

\* A push that found the last chunk full and opened a second chunk.
C10_Witness ==
    /\ ret.op = "Create"
    /\ ret.allocated
    /\ ret.Slot.GlobalIndex > 0
    /\ ret.Slot.LocalIndex = 0
    /\ Len(Archetypes[ret.sig].Chunks) = 2
    /\ ret.Slot.TargetChunk = Archetypes[ret.sig].Chunks[2]

(***************************************************************************)
(* C11. After BuildLayout, EntitiesPerChunk is floor((chunk capacity - 64  *)
(* bytes of header reserve) / total per-entity stride), a stride of 64     *)
(* being assumed when the stride is 0, and it is at least 1 for every      *)
(* component list.                                                         *)
(***************************************************************************)
C11_EntitiesPerChunk ==
    layout.built =>
        LET stride == IF SumSizes(layout.Components) = 0 THEN 64
                      ELSE SumSizes(layout.Components)
        IN  /\ layout.arch.EntitiesPerChunk = (CHUNK_SIZE - 64) \div stride
            /\ layout.arch.EntitiesPerChunk >= 1

\* The sum over the field arrays of a layout of fieldSize * EntitiesPerChunk.
RECURSIVE SumArrayBytes(_, _)
SumArrayBytes(arrays, n) ==
    IF arrays = <<>> THEN 0
    ELSE Head(arrays).Size * n + SumArrayBytes(Tail(arrays), n)

(***************************************************************************)
(* C12. For every layout BuildLayout produces, the sum over all field      *)
(* arrays of fieldSize * EntitiesPerChunk, plus the header reserve, is at  *)
(* most the chunk capacity in bytes.                                       *)
(***************************************************************************)
C12_LayoutFit ==
    layout.built =>
        SumArrayBytes(layout.arch.FieldArrays, layout.arch.EntitiesPerChunk)
            + ReservedHeaderSpace <= CHUNK_SIZE

\* A layout of three or more arrays, one of them a field of a decomposed
\* component, that holds at least one entity per chunk and leaves less
\* than one entity's stride of the chunk unused.
C12_Witness ==
    /\ layout.built
    /\ Len(layout.arch.FieldArrays) >= 3
    /\ \E k \in DOMAIN layout.arch.FieldArrays : layout.arch.FieldArrays[k].isDecomposed
    /\ layout.arch.EntitiesPerChunk >= 1
    /\ SumArrayBytes(layout.arch.FieldArrays, layout.arch.EntitiesPerChunk + 1)
           + ReservedHeaderSpace > CHUNK_SIZE

(***************************************************************************)
(* C13. BuildLayout never completes with a layout whose last field array   *)
(* ends beyond the chunk's capacity (offsets including alignment padding). *)
(***************************************************************************)
C13_NoOverflowingLayout ==
    layout.built => layout.arch.TotalChunkDataSize <= CHUNK_SIZE

\* T::PrePhysics run on one entity e alone, on scalar values.
ScalarPrePhysics(T, mem, e, dt) ==
    LET Wrap(x) == IF x > TWO_PI THEN x - TWO_PI ELSE x
    IN  IF T = "SuperCube"
        THEN [mem EXCEPT !["RotationX"][e] = Wrap(@ + dt),
                         !["RotationY"][e] = Wrap(@ + Scaled(dt, 7)),
                         !["RotationZ"][e] = Wrap(@ + Scaled(dt, 5))]
        ELSE [mem EXCEPT !["PositionX"][e] = @ + dt,
                         !["RotationY"][e] = @ + Scaled(dt, 7),
                         !["RotationZ"][e] = @ + Scaled(dt, 6)]

\* The method run scalar on the entities 0..n-1, one at a time.
RECURSIVE RunScalar(_, _, _, _)
RunScalar(T, mem, n, dt) ==
    IF n = 0 THEN mem
    ELSE ScalarPrePhysics(T, RunScalar(T, mem, n - 1, dt), n - 1, dt)

(***************************************************************************)
(* C14. Running a lifecycle method through the batched + masked-tail       *)
(* invoker over a chunk of N entities, N not a multiple of 8, leaves every *)
(* field of the entities 0..N-1 with the value the method run scalar, one  *)
(* entity at a time, gives it, and writes no element at index N or beyond. *)
(***************************************************************************)
C14_SimdEqualsScalar ==
    (inv.pc = "Done" /\ inv.componentCount % 8 # 0) =>
        /\ \A f \in FieldNames : \A e \in 0..(inv.componentCount - 1) :
               inv.mem[f][e] = RunScalar(inv.T, inv.mem0, inv.componentCount, inv.dt)[f][e]
        /\ \A k \in inv.written : k < inv.componentCount

\* The start indices i, i + 8, ... of n batches.
BatchStarts(n) == [k \in 1..n |-> 8 * (k - 1)]

(***************************************************************************)
(* C15. Given entityCount N, the invoker calls the lifecycle method        *)
(* floor(N/8) times on the unmasked batch view at the start indices 0, 8,  *)
(* 16, ..., then exactly once on the masked tail view hydrated at start    *)
(* index 8 * floor(N/8) with N mod 8 active lanes, so that every entity    *)
(* index in 0..N-1 is processed exactly once.                              *)
(***************************************************************************)
C15_BatchesThenTail ==
    inv.pc = "Done" =>
        LET N == inv.componentCount
            b == N \div 8
        IN  /\ Len(inv.calls) = b + 1
            /\ \A k \in 1..b :
                   /\ ~inv.calls[k].view.MASK
                   /\ inv.calls[k].view.index = BatchStarts(b)[k]
            /\ inv.calls[b + 1].view.MASK
            /\ inv.calls[b + 1].view.index = 8 * b
            /\ Cardinality(ActiveLanes(inv.calls[b + 1].view)) = N % 8
            /\ \A e \in 0..(N - 1) :
                   Cardinality({k \in DOMAIN inv.calls :
                       (e - inv.calls[k].view.index) \in ActiveLanes(inv.calls[k].view)}) = 1
            /\ \A k \in DOMAIN inv.calls : \A l \in ActiveLanes(inv.calls[k].view) :
                   inv.calls[k].view.index + l < N

\* An invoker has returned from a chunk of more than one batch with a tail.
C15_Witness ==
    /\ inv.pc = "Done"
    /\ inv.componentCount > 8
    /\ inv.componentCount % 8 # 0
    /\ Len(inv.calls) = 2

(***************************************************************************)
(* C16. Create<T>() for an entity type T that was never registered returns *)
(* the invalid EntityID (Value 0) and allocates no index, no archetype     *)
(* slot and no EntityRecord.                                               *)
(***************************************************************************)
C16_UnregisteredCreateInvalid ==
    [][ret'.op = "CreateUnregistered" =>
          /\ ret'.Id = Invalid
          /\ NextEntityIndex' = NextEntityIndex
          /\ FreeIndices' = FreeIndices
          /\ Archetypes' = Archetypes
          /\ EntityIndex' = EntityIndex]_vars

\* The archetypes whose signature contains Sig.
MatchingArchetypes(entries, Sig) ==
    {entries[k].Arch : k \in {j \in DOMAIN entries : Contains(entries[j].Sig, Sig)}}

\* C17: ComponentQuery returns exactly the archetypes whose signature
\* contains every queried component type: each of them once, no null entry
\* and no other archetype, also when no archetype exists or none matches.
C17_QueryExact ==
    world.op = "ComponentQuery" =>
        LET matching == MatchingArchetypes(world.Archetypes, world.Sig)
        IN  /\ \A k \in DOMAIN world.Results : world.Results[k] # Null
            /\ {world.Results[k] : k \in DOMAIN world.Results} = matching
            /\ Len(world.Results) = Cardinality(matching)

\* The archetype the entities of class c are stored in.
ArchetypeOfClass(c) ==
    LET k == CHOOSE j \in DOMAIN world.Archetypes :
                 \E r \in DOMAIN world.Archetypes[j].ResidentClassIDs :
                     world.Archetypes[j].ResidentClassIDs[r] = c
    IN  world.Archetypes[k].Arch

\* C18: signature equality alone determines the archetype: two classes are
\* stored in the same Archetype exactly when their component signatures
\* are equal (a superset is a different archetype), and no two archetypes
\* have the same signature, so a request for a known signature returns the
\* existing archetype.
C18_SignatureDeterminesArchetype ==
    /\ \A c1, c2 \in DOMAIN world.meta :
          (ArchetypeOfClass(c1) = ArchetypeOfClass(c2))
              <=> (SignatureOf(world.meta[c1].Components)
                       = SignatureOf(world.meta[c2].Components))
    /\ \A j, k \in DOMAIN world.Archetypes :
          j # k => world.Archetypes[j].Sig # world.Archetypes[k].Sig

\* The calls a completed scan has to make: one per non-empty chunk of every
\* archetype whose class defines the phase, with that chunk's entity count.
ExpectedCalls ==
    {[Arch |-> world.Archetypes[k].Arch, chunkIdx |-> i,
      chunk |-> world.Archetypes[k].data.Chunks[i + 1],
      entityCount |-> GetChunkCount(world.Archetypes[k].data, i)] :
        <<k, i>> \in {p \in (DOMAIN world.Archetypes) \X (0..MaxArchetypeEntities) :
            /\ DefinesPhase(world.meta, world.Archetypes[p[1]], world.phase)
            /\ p[2] < Len(world.Archetypes[p[1]].data.Chunks)
            /\ GetChunkCount(world.Archetypes[p[1]].data, p[2]) > 0}}

ScanCompleted == world.op = "Invoke" /\ world.pc = "Idle"

\* C19 (state part): when InvokePrePhys / InvokeUpdate / InvokePostPhys has
\* returned, the phase function was invoked exactly once for every
\* non-empty chunk of every archetype whose class defines the phase, with
\* entityCount = GetChunkCount(chunk), and for no other chunk; during the
\* scan no chunk is handed over twice.
C19_CallsExact ==
    /\ world.op = "Invoke" =>
          /\ \A i, j \in DOMAIN world.calls :
                i # j => world.calls[i].chunk # world.calls[j].chunk
          /\ {world.calls[i] : i \in DOMAIN world.calls} \subseteq ExpectedCalls
    /\ ScanCompleted =>
          /\ {world.calls[i] : i \in DOMAIN world.calls} = ExpectedCalls
          /\ Len(world.calls) = Cardinality(ExpectedCalls)

CallsOf(name) == {k \in DOMAIN logic.calls : logic.calls[k] = name}

\* C20 (state part): when a frame of the logic thread ends, it has called
\* ProcessDeferredDestructions exactly once, after every InvokePrePhys,
\* InvokePostPhys and InvokeUpdate of the frame.
C20_ProcessedOncePerFrame ==
    logic.pc = "FrameEnd" =>
        /\ Cardinality(CallsOf("ProcessDeferredDestructions")) = 1
        /\ \A p \in CallsOf("ProcessDeferredDestructions") :
              \A k \in CallsOf("InvokePrePhys") \cup CallsOf("InvokePostPhys")
                        \cup CallsOf("InvokeUpdate") : k < p

\* C20: every frame of the logic thread calls ProcessDeferredDestructions
\* exactly once after all its phases, so that every id passed to Destroy
\* is eventually processed.
C20_DeferredDestructionsProcessed ==
    /\ []C20_ProcessedOncePerFrame
    /\ (PendingDestructions # <<>> ~> PendingDestructions = <<>>)

\* The chunk list before is a prefix of the chunk list after.
IsPrefix(before, after) ==
    /\ Len(before) <= Len(after)
    /\ \A k \in DOMAIN before : after[k] = before[k]

\* The record's TargetChunk is one of the chunks of the record's archetype.
OwnsTargetChunk(Record) ==
    \E k \in DOMAIN Archetypes[Record.Arch].Chunks :
        Archetypes[Record.Arch].Chunks[k] = Record.TargetChunk

\* C21: a chunk appended to an archetype keeps its position in Chunks and
\* is never removed or replaced by Create, Destroy or
\* ProcessDeferredDestructions, and the TargetChunk in the EntityRecord of
\* every live entity is a chunk of that record's archetype.
C21_ChunksAppendOnly ==
    /\ [][\A sig \in DOMAIN Archetypes :
             /\ sig \in DOMAIN Archetypes'
             /\ IsPrefix(Archetypes[sig].Chunks, Archetypes'[sig].Chunks)]_vars
    /\ [](\A i \in DOMAIN EntityIndex :
             RecordIsValid(EntityIndex[i]) => OwnsTargetChunk(EntityIndex[i]))

\* After a ProcessDeferredDestructions, a live entity still has its record
\* on the first chunk of an archetype that has grown to several chunks.
C21_Witness ==
    /\ ret.op = "Process"
    /\ ret.pending # <<>>
    /\ \E i \in DOMAIN EntityIndex :
          /\ RecordIsValid(EntityIndex[i])
          /\ Len(Archetypes[EntityIndex[i].Arch].Chunks) >= 2
          /\ EntityIndex[i].TargetChunk = Archetypes[EntityIndex[i].Arch].Chunks[1]

\* C22: destruction never shrinks storage. Destroy and
\* ProcessDeferredDestructions leave every archetype (TotalEntityCount,
\* chunk list, hence every GetChunkCount) and GetTotalEntityCount as they
\* were, and a Create that recycles an index is given the slot after the
\* last one its archetype has handed out, never the slot of a destroyed
\* entity.
C22_DestructionNeverShrinks ==
    [][/\ ret'.op \in {"Destroy", "Process"} =>
             /\ Archetypes' = Archetypes
             /\ GetTotalEntityCount' = GetTotalEntityCount
       /\ (ret'.op = "Create" /\ ret'.fromFree) =>
             /\ ret'.Slot.GlobalIndex = Archetypes[ret'.sig].TotalEntityCount
             /\ Archetypes'[ret'.sig].TotalEntityCount
                    = Archetypes[ret'.sig].TotalEntityCount + 1
             /\ GetTotalEntityCount' = GetTotalEntityCount + 1]_vars

\* A Create has recycled the index of a destroyed entity into an archetype
\* that still counts the destroyed entity.
C22_Witness ==
    /\ ret.op = "Create"
    /\ ret.fromFree
    /\ ret.Slot.GlobalIndex >= 1
    /\ Cardinality(Live) < GetTotalEntityCount

\* The bindings the dispatch code creates: the scalar proxy, the unmasked
\* batch view (count -1), the masked tail view with 0..7 lanes.
DispatchBinding ==
    \/ proxy.kind = "Scalar"
    \/ proxy.kind = "Unmasked" /\ proxy.count = -1
    \/ proxy.kind = "Masked" /\ proxy.count \in 0..(SIMD_BATCH - 1)

\* C23: a value written through a bound FieldProxy and read back through
\* the same proxy is the value written, for every binding the dispatch
\* code creates.
C23_WriteThenRead ==
    (proxy.op = "ReadBack" /\ DispatchBinding) => proxy.result = proxy.value

\* The lanes Bind(arrayBase, startIndex, startCount) is said to activate.
BoundLanes(startCount) ==
    IF startCount = -1 THEN LaneIndices
    ELSE {i \in LaneIndices : i < startCount}

\* C24: after Bind(arrayBase, startIndex, startCount) a write through the
\* SIMD proxy changes exactly the elements startIndex + i with 0 <= i < 8
\* and i < startCount, all 8 for startCount = -1, and no other element.
C24_WriteHitsBoundLanes ==
    (proxy.kind # "Scalar" /\ proxy.op \in {"Assign", "PlusAssign"}) =>
        \A k \in DOMAIN proxy.array :
            IF k - proxy.index \in BoundLanes(proxy.count)
            THEN proxy.array[k] = IF proxy.op = "Assign" THEN proxy.value
                                  ELSE proxy.before[k] + proxy.value
            ELSE proxy.array[k] = proxy.before[k]

C29_LayoutOffsets ==
    layout.built =>
        LET arrays == LayoutArrays(layout.Components)
            placed == layout.arch.FieldArrays
            epc    == layout.arch.EntitiesPerChunk
        IN  /\ Len(placed) = Len(arrays)
            /\ \A k \in DOMAIN placed :
                  /\ placed[k].componentID = arrays[k].componentID
                  /\ placed[k].fieldIndex = arrays[k].fieldIndex
                  /\ placed[k].offsetInChunk >= ReservedHeaderSpace
                  /\ placed[k].offsetInChunk % arrays[k].Alignment = 0
                  /\ k = 1 => placed[k].offsetInChunk
                                 = AlignOffset(ReservedHeaderSpace, arrays[k].Alignment)
                  /\ k > 1 =>
                        /\ placed[k - 1].offsetInChunk < placed[k].offsetInChunk
                        /\ placed[k - 1].offsetInChunk + epc * placed[k - 1].Size
                              <= placed[k].offsetInChunk

\* C30: for every registered entity type, the k-th field proxy bound when
\* its view is hydrated (schema member order, then field order within each
\* component) is bound to the array of the same component field that
\* BuildLayout placed at table index k of the archetype holding the
\* entities of that type.
C30_BindingMatchesLayout ==
    bind.pc = "Hydrated" =>
        LET FieldArrays == bind.Archetypes[bind.arch].data.FieldArrays
        IN  \A k \in DOMAIN bind.bound :
               /\ (k + 1) \in DOMAIN FieldArrays
               /\ FieldArrays[k + 1].componentID = bind.bound[k].componentID
               /\ FieldArrays[k + 1].fieldIndex = bind.bound[k].fieldIndex

\* C26: at every moment the logic thread's staging packet, the mailbox
\* packet and the packet the render thread reads (its visual / current
\* packet) are three distinct FramePackets, so the logic thread never
\* writes a packet the render thread can read. The moment between the
\* render thread's exchange and its decision on the packet it received is
\* left out: there it holds two packets.
C26_ThreePackets ==
    mail.pc # "None" /\ mail.render # "Exchanged" =>
        /\ mail.StagingPacket # mail.Mailbox
        /\ mail.StagingPacket # mail.visualPacket
        /\ mail.Mailbox # mail.visualPacket
        /\ mail.CurrentFramePacket # Null =>
              mail.CurrentFramePacket # mail.StagingPacket

\* C27: in every render frame the render thread builds its copy pass and
\* its render pass only with the command buffer and the swapchain texture
\* the main thread provided in response to that frame's request (never a
\* null pointer, also when Stop() is called during a wait, never a resource
\* of an earlier frame), and sets bReadyToSubmit only after that.
C27_BuildsWithProvidedResources ==
    rt.pc # "None" =>
        /\ rt.copyCmd # 0 => rt.copyCmd = rt.frame
        /\ rt.passCmd # 0 => rt.passCmd = rt.frame /\ rt.passTex = rt.frame
        /\ rt.signalled /\ rt.interpolated =>
              rt.copyCmd = rt.frame /\ rt.passCmd = rt.frame /\ rt.passTex = rt.frame

\* C28: GetCommand returns each committed command once, in the order the
\* producer committed them, and never a command that is uncommitted, whose
\* Finished flag is clear, or that is left over from an earlier lap of the
\* buffer, also when head or tail wraps: the commands returned so far are
\* the first commands committed, and the read position never passes the
\* write position.
C28_ReturnsCommittedInOrder ==
    ring.pc # "None" =>
        /\ IsPrefix(ring.returned, ring.committed)
        /\ ring.tail = ring.head => Len(ring.returned) = Len(ring.committed)

\* The component types class ID has declared.
DeclaredTypes(ID) ==
    {metareg.ClassToComponentList[ID][k] : k \in DOMAIN metareg.ClassToComponentList[ID]}

\* C31: registering component type t for a class sets exactly bit t - 1 of
\* the class's signature and no other bit, the bit BuildSignature sets for
\* that component; hence two classes have equal signatures exactly when
\* they declare the same set of component types.
C31_RegistrationSetsOneBit ==
    metareg.pc = "Registering" =>
        /\ metareg.ID # 0 =>
              metareg.ClassToArchetype[metareg.ID] =
                  metareg.before \cup BuildSignatureBits({metareg.TypeID})
        /\ \A a, b \in SignatureClassIDs :
              (metareg.ClassToArchetype[a] = metareg.ClassToArchetype[b])
                  <=> (DeclaredTypes(a) = DeclaredTypes(b))

\* The entry of the archetype map in which the entities of class c reside.
EntryOfClass(c) ==
    CHOOSE j \in DOMAIN world.Archetypes :
        \E r \in DOMAIN world.Archetypes[j].ResidentClassIDs :
            world.Archetypes[j].ResidentClassIDs[r] = c

\* Two distinct classes with one signature reside in one archetype, and a
\* completed phase has run on that archetype exactly when the class that
\* became resident first defines the phase, whatever the other class
\* defines.
FirstResidentDispatch ==
    \A a, b \in DOMAIN world.meta :
        (a # b /\ SignatureOf(world.meta[a].Components)
                      = SignatureOf(world.meta[b].Components)) =>
            LET entry == world.Archetypes[EntryOfClass(a)]
                first == entry.ResidentClassIDs[1]
            IN  /\ EntryOfClass(b) = EntryOfClass(a)
                /\ (ScanCompleted /\ entry.data.TotalEntityCount > 0) =>
                      ((\E i \in DOMAIN world.calls : world.calls[i].Arch = entry.Arch)
                          <=> world.phase \in world.meta[first].Phases)

C33_FreedNotFound ==
    \A k \in DOMAIN freedOrder :
        LET Id == freedOrder[k]
        IN  /\ Id.Index < EntityIndexSize
            /\ EntityIndex[Id.Index].Generation = Id.Generation
            /\ \A TypeID \in ComponentTypeIDs :
                  LET got == GetComponent(Id, TypeID, EntityIndex, Archetypes)
                  IN  ~got.found /\ ~got.deref

\* A destruction has been processed and the freed index is not yet reused,
\* while another entity is still alive.
C33_Witness ==
    /\ ret.op = "Process"
    /\ freedOrder # <<>>
    /\ Live # {}
    /\ EntityIndex[freedOrder[1].Index].Generation = freedOrder[1].Generation

\* The ids of the entities that are alive or await their destruction.
LiveIds == {e.Id : e \in Live}

\* GetComponent<T>(Id) returns a component for some T on the given table.
Found(Id, table, archs) ==
    \E TypeID \in ComponentTypeIDs : GetComponent(Id, TypeID, table, archs).found

\* C34: once an entity has been destroyed and its destruction processed,
\* GetComponent on its old id returns null forever after, however often its
\* index is recycled, also after the generation counter wraps: an id that
\* was issued, is no longer alive and is not found stays not found in
\* every later state.
C34_NullForever ==
    [][\A Id \in Issued :
          (Id \notin LiveIds /\ ~Found(Id, EntityIndex, Archetypes))
              => ~Found(Id, EntityIndex', Archetypes')]_vars

\* C35: from the moment Create<T> returns id until id is destroyed and
\* processed, EntityIndex[id.Index] is in bounds, valid, has Generation =
\* id.Generation and points at the chunk and local slot PushEntity returned
\* for it, for any number of entities created and across every growth of
\* the EntityIndex table.
C35_RecordTracksEntity ==
    \A e \in Live :
        /\ e.Id.Index < EntityIndexSize
        /\ RecordIsValid(EntityIndex[e.Id.Index])
        /\ EntityIndex[e.Id.Index].Generation = e.Id.Generation
        /\ EntityIndex[e.Id.Index].TargetChunk = e.TargetChunk
        /\ EntityIndex[e.Id.Index].Index = e.LocalIndex

\* The position of the chunk in the archetype's chunk list, counted from 0.
ChunkIndexOf(arch, chunk) ==
    (CHOOSE k \in DOMAIN arch.Chunks : arch.Chunks[k] = chunk) - 1

\* Where the record says the entity lies.
StorageSlot(Record) == <<Record.Arch, Record.TargetChunk, Record.Index>>

\* C36: no two live entities share a storage slot: the records of two
\* distinct live ids differ in (Arch, TargetChunk, Index), and every live
\* record's Index is smaller than GetChunkCount of its chunk.
C36_SlotsDistinct ==
    /\ \A e1, e2 \in Live :
          e1.Id # e2.Id =>
              StorageSlot(EntityIndex[e1.Id.Index]) # StorageSlot(EntityIndex[e2.Id.Index])
    /\ \A e \in Live :
          LET Record == EntityIndex[e.Id.Index]
          IN  RecordIsValid(Record) =>
                  /\ \E k \in DOMAIN Archetypes[Record.Arch].Chunks :
                        Archetypes[Record.Arch].Chunks[k] = Record.TargetChunk
                  /\ Record.Index < GetChunkCount(Archetypes[Record.Arch],
                         ChunkIndexOf(Archetypes[Record.Arch], Record.TargetChunk))

\* Two live entities lie in one chunk and a third in the next chunk.
C36_Witness ==
    /\ \E e1, e2 \in Live :
          /\ e1.Id # e2.Id
          /\ EntityIndex[e1.Id.Index].TargetChunk = EntityIndex[e2.Id.Index].TargetChunk
          /\ EntityIndex[e1.Id.Index].Index # EntityIndex[e2.Id.Index].Index
    /\ \E e1, e2 \in Live :
          /\ RecordIsValid(EntityIndex[e1.Id.Index])
          /\ RecordIsValid(EntityIndex[e2.Id.Index])
          /\ EntityIndex[e1.Id.Index].TargetChunk # EntityIndex[e2.Id.Index].TargetChunk

\* C37: for every archetype built from registered entity types, the number
\* of field arrays is at most the capacity (64 entries) of the stack table
\* that InvokeUpdate / InvokePrePhys / InvokePostPhys hand to
\* BuildFieldArrayTable, so building the table never writes out of bounds.
C37_TableWithinCapacity ==
    layout.built =>
        /\ Len(layout.arch.FieldArrays) <= MAX_FIELD_ARRAYS
        /\ \A i \in DOMAIN layout.table : i - 1 < MAX_FIELD_ARRAYS

\* C38: for every registered entity type T, the masked tail view used by
\* T's invoker (T::MaskedType) runs the same lifecycle method over the same
\* field bindings as T's unmasked batch view, so the last N mod 8 entities
\* of a chunk receive the same update as all other entities of that type:
\* the tail step leaves the arrays as T's own PrePhysics, run on the masked
\* tail view, leaves them.
C38_TailRunsOwnMethod ==
    [][TailStep =>
          inv'.mem = PrePhysics(inv.T, inv.mem, TailHydrate(inv.componentCount), inv.dt)]_vars

\* C39: the archetype into which Create<T> pushes always belongs to the
\* Registry on which Create was called and is still alive, also after
\* ResetRegistry() and when more than one Registry exists in the process,
\* despite the per-type function-local static archetype cache.
C39_PushesIntoOwnLiveArchetype ==
    proc.pc = "Running" =>
        (proc.pushed.arch # 0 =>
            /\ proc.owner[proc.pushed.arch] = proc.pushed.reg
            /\ ~proc.pushed.dangling)

\* C40: while the logic thread keeps creating entities,
\* RenderThread::SnapshotSparseArrays never writes past the end of
\* SnapshotCurrent: the number of entities it copies from the queried
\* archetypes never exceeds the ActiveEntityCount of the frame packet from
\* which it sized the buffer.
C40_SnapshotWithinBuffer ==
    snap.pc # "None" =>
        /\ snap.writeIdx <= snap.size
        /\ snap.writeIdx <= snap.entityCount

====
